---- MODULE Spec2Model ----
(***************************************************************************)
(* A model of src/kernel/storage/json_store.{h,cpp}: JSONStore (the        *)
(* document store), the lambdas DictJSONStore and ListJSONStore hand to    *)
(* JSONStore::update, compress and decompress, and LogStore (the journal). *)
(*                                                                         *)
(* A file is a record [ex, bytes]: whether it exists, and its content as a *)
(* sequence of JSON tokens.  A JSON value is a tagged record               *)
(* [t, n, s, items, mem].                                                  *)
(***************************************************************************)
EXTENDS Integers, Sequences, FiniteSets, TLC

(***************************************************************************)
(* Bounds of the model.                                                    *)
(***************************************************************************)
MaxOps == 2
MaxTime == 2
MaxFaults == 1
MaxBackupsCfg == 1
NThreads == 2
MaxLogs == 4
MaxSec == 1
MaxDay == 2
MaxEntriesCfg == 2
MaxViewOps == 3

(***************************************************************************)
(* JSON values (nlohmann::json), restricted to the kinds the model uses.   *)
(***************************************************************************)
JNull == [t |-> "null", n |-> 0, s |-> "", items |-> <<>>, mem |-> <<>>]
JInt(i) == [t |-> "int", n |-> i, s |-> "", items |-> <<>>, mem |-> <<>>]
JStr(str) == [t |-> "str", n |-> 0, s |-> str, items |-> <<>>, mem |-> <<>>]
\* an array: the sequence of its elements
JArr(elems) == [t |-> "arr", n |-> 0, s |-> "", items |-> elems, mem |-> <<>>]
\* an object: the sequence of its members [k, val], sorted by key (std::map)
JObjOf(members) == [t |-> "obj", n |-> 0, s |-> "", items |-> <<>>, mem |-> members]

is_null(j) == j.t = "null"
is_array(j) == j.t = "arr"
is_object(j) == j.t = "obj"

EmptyObject == JObjOf(<<>>)
EmptyArray == JArr(<<>>)

\* The keys an object of the model can hold, in std::map's (sorted) order.
KeyOrder == <<"a", "b", "id", "timestamp">>
AllKeys == {KeyOrder[i] : i \in 1..Len(KeyOrder)}

Keys(j) == {j.mem[i].k : i \in 1..Len(j.mem)}
\* data.contains(key): false on anything that is not an object
contains(j, k) == is_object(j) /\ k \in Keys(j)
\* data[key] on an object that holds key
ObjGet(j, k) == (CHOOSE i \in 1..Len(j.mem) : j.mem[i].k = k)
ValueAt(j, k) == j.mem[ObjGet(j, k)].val

\* the members of the mapping g (a function on a set of keys) from rank i on, sorted
RECURSIVE MembersFrom(_, _)
MembersFrom(g, i) ==
    IF i > Len(KeyOrder) THEN <<>>
    ELSE IF KeyOrder[i] \in DOMAIN g
         THEN <<[k |-> KeyOrder[i], val |-> g[KeyOrder[i]]]>> \o MembersFrom(g, i + 1)
         ELSE MembersFrom(g, i + 1)
JObj(g) == JObjOf(MembersFrom(g, 1))
NoMembers == [k \in {} |-> JNull]

\* data[key] = value on an object
ObjSet(j, key, value) ==
    JObj([k \in Keys(j) \cup {key} |-> IF k = key THEN value ELSE ValueAt(j, k)])
\* data.erase(key) on an object
ObjErase(j, key) == JObj([k \in Keys(j) \ {key} |-> ValueAt(j, k)])

\* The integers and the strings a document of the model can hold.
IntRange == 0..99
\* A string that is not valid UTF-8: nlohmann's dump throws type_error.316 on it.
BadUtf8 == "\\xFF"
StrRange == {"x", "y", BadUtf8}

Quote(s) == "\"" \o s
IntTokens == {ToString(n) : n \in IntRange}
StrTokens == {Quote(s) : s \in StrRange \cup AllKeys}
IntOf(tok) == CHOOSE n \in IntRange : ToString(n) = tok
StrOf(tok) == CHOOSE s \in StrRange \cup AllKeys : Quote(s) = tok

(***************************************************************************)
(* Serialization: operator<<(ostream, json), as a sequence of tokens.      *)
(***************************************************************************)
RECURSIVE Dump(_), DumpItems(_), DumpMembers(_)
Dump(j) ==
    CASE j.t = "null" -> <<"null">>
      [] j.t = "int" -> <<ToString(j.n)>>
      [] j.t = "str" -> <<Quote(j.s)>>
      [] j.t = "arr" -> <<"[">> \o DumpItems(j.items) \o <<"]">>
      [] j.t = "obj" -> <<"{">> \o DumpMembers(j.mem) \o <<"}">>

DumpItems(s) ==
    IF s = <<>> THEN <<>>
    ELSE IF Len(s) = 1 THEN Dump(s[1])
    ELSE Dump(s[1]) \o <<",">> \o DumpItems(Tail(s))

DumpMembers(m) ==
    IF m = <<>> THEN <<>>
    ELSE <<Quote(m[1].k), ":">> \o Dump(m[1].val)
         \o (IF Len(m) = 1 THEN <<>> ELSE <<",">> \o DumpMembers(Tail(m)))

\* file << std::setw(indent_) << data << std::endl
Serialize(j) == Dump(j) \o <<"\n">>

\* dump throws (type_error.316) when it meets a string that is not valid UTF-8
RECURSIVE Serializable(_)
Serializable(j) ==
    CASE j.t = "str" -> j.s # BadUtf8
      [] j.t = "arr" -> \A i \in 1..Len(j.items) : Serializable(j.items[i])
      [] j.t = "obj" -> \A i \in 1..Len(j.mem) : Serializable(j.mem[i].val)
      [] OTHER -> TRUE

(***************************************************************************)
(* Parsing: operator>>(istream, json).  The result is [ok, v, rest]; the   *)
(* stream operator reads one value and does not require the end of input.  *)
(***************************************************************************)
ParseFail == [ok |-> FALSE, v |-> JNull, rest |-> <<>>]
ParseOk(val, rest) == [ok |-> TRUE, v |-> val, rest |-> rest]

SkipWs(toks) == IF toks # <<>> /\ Head(toks) = "\n" THEN Tail(toks) ELSE toks

RECURSIVE ParseValue(_), ParseItems(_, _), ParseMembers(_, _)
ParseValue(toks0) ==
    LET toks == SkipWs(toks0) IN
    IF toks = <<>> THEN ParseFail
    ELSE LET h == Head(toks)
             r == Tail(toks)
         IN  CASE h = "null" -> ParseOk(JNull, r)
               [] h \in IntTokens -> ParseOk(JInt(IntOf(h)), r)
               [] h \in StrTokens -> ParseOk(JStr(StrOf(h)), r)
               [] h = "[" -> IF r # <<>> /\ Head(r) = "]"
                             THEN ParseOk(EmptyArray, Tail(r))
                             ELSE ParseItems(r, <<>>)
               [] h = "{" -> IF r # <<>> /\ Head(r) = "}"
                             THEN ParseOk(EmptyObject, Tail(r))
                             ELSE ParseMembers(r, EmptyObject)
               [] OTHER -> ParseFail

ParseItems(toks, acc) ==
    LET e == ParseValue(toks) IN
    IF ~e.ok \/ e.rest = <<>> THEN ParseFail
    ELSE IF Head(e.rest) = "," THEN ParseItems(Tail(e.rest), Append(acc, e.v))
    ELSE IF Head(e.rest) = "]" THEN ParseOk(JArr(Append(acc, e.v)), Tail(e.rest))
    ELSE ParseFail

ParseMembers(toks, acc) ==
    IF Len(toks) < 2 \/ Head(toks) \notin StrTokens \/ toks[2] # ":" THEN ParseFail
    ELSE LET e == ParseValue(Tail(Tail(toks))) IN
         IF ~e.ok \/ e.rest = <<>> THEN ParseFail
         ELSE LET obj == ObjSet(acc, StrOf(Head(toks)), e.v) IN
              IF Head(e.rest) = "," THEN ParseMembers(Tail(e.rest), obj)
              ELSE IF Head(e.rest) = "}" THEN ParseOk(obj, Tail(e.rest))
              ELSE ParseFail

Parse(bytes) == ParseValue(bytes)

(***************************************************************************)
(* The transforms handed to JSONStore::update: the lambdas of the views    *)
(* (DictJSONStore, ListJSONStore) and a caller's own function.  A          *)
(* transform is a record [f, key, val, idx, flag]; applying it gives       *)
(* [ok, v], ok = FALSE when it throws.                                     *)
(***************************************************************************)
Fn(f, key, val, idx, flag) == [f |-> f, key |-> key, val |-> val, idx |-> idx, flag |-> flag]
Returned(j) == [ok |-> TRUE, v |-> j]
Thrown == [ok |-> FALSE, v |-> JNull]

\* the predicates a caller hands to filter
FilterFunc(p, item) ==
    CASE p = "gt2" -> item.t = "int" /\ item.n > 2
      [] p = "odd" -> item.t = "int" /\ item.n % 2 = 1
      [] p = "odd_id" -> contains(item, "id") /\ ValueAt(item, "id").n % 2 = 1
      [] OTHER -> FALSE

\* DictJSONStore::set
set_lambda(key, value, data) ==
    ObjSet(IF ~is_object(data) THEN EmptyObject ELSE data, key, value)

\* the lambda of delete_key as it would be with the coercion of set's lambda
delete_key_coerce(key, data) ==
    IF ~is_object(data) THEN EmptyObject
    ELSE IF contains(data, key) THEN ObjErase(data, key) ELSE data

\* DictJSONStore::delete_key
delete_key_lambda(key, data) ==
    IF is_object(data) /\ contains(data, key) THEN ObjErase(data, key) ELSE data

\* the lambda of merge as it would be if it never replaced a key's value
merge_lambda_keep(other, overwrite, data) ==
    LET d == IF ~is_object(data) THEN EmptyObject ELSE data IN
    JObj([k \in Keys(d) \cup Keys(other) |->
            IF k \in Keys(d) THEN ValueAt(d, k) ELSE ValueAt(other, k)])

\* DictJSONStore::merge; data.update(other) throws unless other is an object
merge_lambda(other, overwrite, data) ==
    LET d == IF ~is_object(data) THEN EmptyObject ELSE data IN
    IF overwrite
    THEN JObj([k \in Keys(d) \cup Keys(other) |->
                 IF k \in Keys(other) THEN ValueAt(other, k) ELSE ValueAt(d, k)])
    ELSE JObj([k \in Keys(d) \cup Keys(other) |->
                 IF k \in Keys(d) THEN ValueAt(d, k) ELSE ValueAt(other, k)])

\* the lambda of append as it would be with an insertion at the front
append_lambda_front(item, data) ==
    JArr(<<item>> \o (IF ~is_array(data) THEN EmptyArray ELSE data).items)

\* ListJSONStore::append
append_lambda(item, data) ==
    JArr(Append((IF ~is_array(data) THEN EmptyArray ELSE data).items, item))

\* ListJSONStore::extend
extend_lambda(items, data) ==
    LET d == IF ~is_array(data) THEN EmptyArray ELSE data IN
    IF is_array(items) THEN JArr(d.items \o items.items) ELSE d

\* erase of the element at 1-based position i
EraseAt(seq, i) == [j \in 1..(Len(seq) - 1) |-> IF j < i THEN seq[j] ELSE seq[j + 1]]

\* ListJSONStore::remove: std::find, then erase of the first match
remove_lambda(item, data) ==
    IF is_array(data) /\ \E i \in 1..Len(data.items) : data.items[i] = item
    THEN LET i == CHOOSE i \in 1..Len(data.items) :
                      /\ data.items[i] = item
                      /\ \A j \in 1..(i - 1) : data.items[j] # item
         IN  JArr(EraseAt(data.items, i))
    ELSE data

\* ListJSONStore::remove_at (index is 0-based)
remove_at_lambda(index, data) ==
    IF is_array(data) /\ index >= 0 /\ index < Len(data.items)
    THEN JArr(EraseAt(data.items, index + 1))
    ELSE data

\* the lambda of filter as it would be with the test negated
filter_lambda_not(p, data) ==
    IF is_array(data)
    THEN LET Drop(item) == ~FilterFunc(p, item) IN JArr(SelectSeq(data.items, Drop))
    ELSE data

\* ListJSONStore::filter
filter_lambda(p, data) ==
    IF is_array(data)
    THEN LET Keep(item) == FilterFunc(p, item) IN JArr(SelectSeq(data.items, Keep))
    ELSE data

\* update_func(data)
Apply(fn, data) ==
    CASE fn.f = "set" -> Returned(set_lambda(fn.key, fn.val, data))
      [] fn.f = "delete_key" -> Returned(delete_key_lambda(fn.key, data))
      [] fn.f = "merge" -> IF fn.flag /\ ~is_object(fn.val) THEN Thrown
                           ELSE Returned(merge_lambda(fn.val, fn.flag, data))
      [] fn.f = "append" -> Returned(append_lambda(fn.val, data))
      [] fn.f = "extend" -> Returned(extend_lambda(fn.val, data))
      [] fn.f = "remove" -> Returned(remove_lambda(fn.val, data))
      [] fn.f = "remove_at" -> Returned(remove_at_lambda(fn.idx, data))
      [] fn.f = "filter" -> Returned(filter_lambda(fn.key, data))
      [] fn.f = "throw" -> Thrown
      [] OTHER -> Returned(data)

(***************************************************************************)
(* The state: one JSONStore object, the files it touches, and the threads  *)
(* that call it; then the journal (LogStore) and its directory.            *)
(***************************************************************************)
VARIABLES
    cfg,        \* the constructor's arguments, and whether file_path has a directory part
    file,       \* the document file at file_path_
    tmp,        \* the temporary file file_path_ + ".tmp"
    gz,         \* the compressed file file_path_ + ".gz"
    backups,    \* the backup files of the directory: a set of [stem, name, bytes, mtime]
    now,        \* the clock, in seconds
    built,      \* the constructor has returned
    mutex,      \* mutex_: 0 when free, else the thread holding it
    pc,         \* each thread's position
    op,         \* each thread's current call
    loc,        \* each thread's locals
    ret,        \* what each thread's last call gave its caller
    pre,        \* the files as they were when each thread's current call began
    nops,       \* the number of calls begun
    commits,    \* the updates committed, in the order of their renames
    written,    \* the value of the last write that returned, until another call changes the store
    crashed,    \* the process was killed
    faults,     \* the filesystem failures that have happened
    jcfg,       \* the journal: max_entries_per_file_ and auto_rotate_
    jfiles,     \* the journal's directory: each log file name's file
    cur,        \* current_store_: the name its store is bound to, or NoName
    jclock,     \* the journal's clock: [day, sec]
    added,      \* the add_log calls made: [entry, day, name, from], in order
    jmtime,     \* the last write time of each log file
    others,     \* the other files of the journal's directory: [ex, bytes, mtime]
    jret        \* what the last get_logs or clear_old_logs did and returned

storeVars == <<cfg, file, tmp, gz, backups, now, built, mutex, pc, op, loc, ret, pre, nops,
               commits, written, crashed, faults>>
journalVars == <<jcfg, jfiles, cur, jclock, added, jmtime, others, jret>>
vars == <<storeVars, journalVars>>

Threads == 1..NThreads

NoFile == [ex |-> FALSE, bytes |-> <<>>]
FileOf(bytes) == [ex |-> TRUE, bytes |-> bytes]

\* validate_func_ of the example and the tests: data.contains("a")
validate_func(data) == contains(data, "a")

NoFn == Fn("none", "", JNull, 0, FALSE)
\* a call: kind, its JSON argument, its boolean argument, its transform
Call(kind, data, flag, fn) == [kind |-> kind, data |-> data, flag |-> flag, fn |-> fn]
NoCall == Call("none", JNull, FALSE, NoFn)

NoLoc == [data |-> JNull, new_data |-> JNull, n |-> 0, bad |-> FALSE, after |-> "",
          failed |-> FALSE, buf |-> <<>>, validated |-> FALSE]
\* a result: "ok" or the class of the exception, the value and the boolean returned
Result(st, val, b) == [st |-> st, val |-> val, b |-> b]
NoResult == Result("none", JNull, FALSE)
NoWrite == [valid |-> FALSE, v |-> JNull]
Snapshot == [file |-> file, tmp |-> tmp, backups |-> backups]

\* The exception classes of json_store.h: what a catch clause for class c catches.
IsA(st, c) ==
    CASE c = "FileNotFoundError" -> st = "FileNotFoundError"
      [] c = "ValidationError" -> st = "ValidationError"
      [] c = "JSONStoreError" -> st \in {"JSONStoreError", "FileNotFoundError", "ValidationError"}
      [] c = "std::exception" -> st \notin {"ok", "none"}
      [] OTHER -> FALSE

(***************************************************************************)
(* The steps of the store's operations.  Each thread runs one call at a    *)
(* time, a step at a time; Finish is a return or a throw to the caller,    *)
(* where the lock_guard releases mutex_.                                   *)
(***************************************************************************)
At(t, p) == ~crashed /\ pc[t] = p
Goto(t, p) == pc' = [pc EXCEPT ![t] = p]

\* a return or a throw as it would be if the lock_guard did not unlock
Finish_keeps_lock(t, r) ==
    /\ pc' = [pc EXCEPT ![t] = "done"]
    /\ ret' = [ret EXCEPT ![t] = r]
    /\ mutex' = mutex

Finish(t, r) ==
    /\ pc' = [pc EXCEPT ![t] = "done"]
    /\ ret' = [ret EXCEPT ![t] = r]
    /\ mutex' = IF mutex = t THEN 0 ELSE mutex

\* update as it would be if it returned the document it read
ReturnOf_old(t) ==
    CASE op[t].kind = "update" -> Result("ok", loc[t].data, TRUE)
      [] OTHER -> Result("ok", JNull, TRUE)

\* the value a completed call hands back
ReturnOf(t) ==
    CASE op[t].kind = "update" -> Result("ok", loc[t].new_data, TRUE)
      [] OTHER -> Result("ok", JNull, TRUE)

\* JSONStore::JSONStore: write_internal_(object()) when the file is absent and auto_create
Construct ==
    /\ At(1, "new")
    /\ IF ~file.ex /\ cfg.auto_create
       THEN /\ op' = [op EXCEPT ![1] = Call("ctor", JNull, FALSE, NoFn)]
            /\ loc' = [loc EXCEPT ![1] = [NoLoc EXCEPT !.new_data = EmptyObject]]
            /\ Goto(1, "wi_open")
            /\ UNCHANGED built
       ELSE /\ built' = TRUE
            /\ Goto(1, "done")
            /\ UNCHANGED <<op, loc>>
    /\ pre' = [pre EXCEPT ![1] = Snapshot]
    /\ UNCHANGED <<journalVars, gz, cfg, file, tmp, backups, now, mutex, ret, nops, commits, written, crashed, faults>>

\* The calls the model makes.
WriteData == {JObj([k \in {"a"} |-> JInt(1)]), JNull, JStr(BadUtf8)}
Defaults == {JNull, EmptyArray}
UpdateFns == {Fn("set", "a", JInt(2), 0, FALSE), Fn("append", "", JInt(3), 0, FALSE),
              Fn("throw", "", JNull, 0, FALSE)}
\* read(): the default argument of the declaration is nullptr
ReadCalls == {Call("read", JNull, FALSE, NoFn)} \cup {Call("read", d, TRUE, NoFn) : d \in Defaults}
WriteCalls == {Call("write", d, v, NoFn) : d \in WriteData, v \in BOOLEAN}
UpdateCalls == {Call("update", JNull, FALSE, f) : f \in UpdateFns}
DeleteCalls == {Call("delete_file", JNull, b, NoFn) : b \in BOOLEAN}

\* the operations that do not take mutex_
Unlocked == {"compress", "decompress", "exists", "get_size"}

\* a thread calls an operation of the store, the max-th call at most
BeginWithin(t, c, max) ==
    /\ built
    /\ At(t, "done")
    /\ nops < max
    /\ nops' = nops + 1
    /\ op' = [op EXCEPT ![t] = c]
    /\ loc' = [loc EXCEPT ![t] = NoLoc]
    /\ ret' = [ret EXCEPT ![t] = NoResult]
    /\ pre' = [pre EXCEPT ![t] = Snapshot]
    /\ written' = IF c.kind = "read" THEN written ELSE NoWrite
    /\ Goto(t, IF c.kind \in Unlocked THEN c.kind ELSE "lock")
    /\ UNCHANGED <<journalVars, gz, cfg, file, tmp, backups, now, built, mutex, commits, crashed, faults>>

Begin(t, c) == BeginWithin(t, c, MaxOps)

CallRead(t) == \E c \in ReadCalls : Begin(t, c)
CallWrite(t) == \E c \in WriteCalls : Begin(t, c)
CallUpdate(t) == \E c \in UpdateCalls : Begin(t, c)
CallDelete(t) == \E c \in DeleteCalls : Begin(t, c)

\* lock_guard as it would be over a mutex that excludes nobody
lock_guard_unlocked(t) ==
    /\ At(t, "lock")
    /\ mutex' = t
    /\ Goto(t, op[t].kind)
    /\ UNCHANGED <<journalVars, gz, cfg, file, tmp, backups, now, built, op, loc, ret, pre, nops,
                   commits, written, crashed, faults>>

\* std::lock_guard<std::mutex> lock(mutex_)
lock_guard(t) ==
    /\ At(t, "lock")
    /\ mutex = 0
    /\ mutex' = t
    /\ Goto(t, op[t].kind)
    /\ UNCHANGED <<journalVars, gz, cfg, file, tmp, backups, now, built, op, loc, ret, pre, nops, commits,
                   written, crashed, faults>>

\* read as it would be if it looked at default_value before the file
read_default_first(t) ==
    /\ At(t, "read")
    /\ Finish(t, IF ~is_null(op[t].data) THEN Result("ok", op[t].data, TRUE)
                 ELSE IF ~file.ex \/ ~Parse(file.bytes).ok
                 THEN Result("JSONStoreError", JNull, FALSE)
                 ELSE Result("ok", Parse(file.bytes).v, TRUE))
    /\ UNCHANGED <<journalVars, gz, cfg, file, tmp, backups, now, built, op, loc, pre, nops,
                   commits, written, crashed, faults>>

\* JSONStore::read, with its two catch clauses: whatever is thrown inside the try
\* block, FileNotFoundError included, is caught and thrown again as a JSONStoreError
read(t) ==
    /\ At(t, "read")
    /\ LET thrown == IF ~file.ex
                     THEN IF ~is_null(op[t].data) THEN "none" ELSE "FileNotFoundError"
                     ELSE IF ~Parse(file.bytes).ok THEN "json::exception" ELSE "none"
           caught == IF thrown = "none" THEN "none" ELSE "JSONStoreError"
       IN  Finish(t, IF caught # "none" THEN Result(caught, JNull, FALSE)
                     ELSE IF ~file.ex THEN Result("ok", op[t].data, TRUE)
                     ELSE Result("ok", Parse(file.bytes).v, TRUE))
    /\ UNCHANGED <<journalVars, gz, cfg, file, tmp, backups, now, built, op, loc, pre, nops, commits,
                   written, crashed, faults>>

\* write as it would be if it called validate_func_ whatever its argument validate
write_validates_always(t) ==
    /\ At(t, "write")
    /\ IF cfg.validator /\ ~validate_func(op[t].data)
       THEN /\ Finish(t, Result("ValidationError", JNull, FALSE))
            /\ loc' = [loc EXCEPT ![t].failed = TRUE, ![t].validated = TRUE]
       ELSE /\ loc' = [loc EXCEPT ![t].new_data = op[t].data, ![t].after = "wi_open",
                                  ![t].validated = cfg.validator]
            /\ Goto(t, IF cfg.auto_backup /\ file.ex THEN "create_backup" ELSE "wi_open")
            /\ UNCHANGED <<ret, mutex>>
    /\ UNCHANGED <<journalVars, gz, cfg, file, tmp, backups, now, built, op, pre, nops, commits, written, crashed, faults>>

\* JSONStore::write up to write_internal_: validation, then the backup;
\* loc.validated records that validate_func_ was called
write(t) ==
    /\ At(t, "write")
    /\ IF op[t].flag /\ cfg.validator /\ ~validate_func(op[t].data)
       THEN /\ Finish(t, Result("ValidationError", JNull, FALSE))
            /\ loc' = [loc EXCEPT ![t].failed = TRUE, ![t].validated = TRUE]
       ELSE /\ loc' = [loc EXCEPT ![t].new_data = op[t].data, ![t].after = "wi_open",
                                  ![t].validated = op[t].flag /\ cfg.validator]
            /\ Goto(t, IF cfg.auto_backup /\ file.ex THEN "create_backup" ELSE "wi_open")
            /\ UNCHANGED <<ret, mutex>>
    /\ UNCHANGED <<journalVars, gz, cfg, file, tmp, backups, now, built, op, pre, nops, commits, written, crashed, faults>>

\* JSONStore::update up to write_internal_: read the document, apply update_func
update(t) ==
    /\ At(t, "update")
    /\ LET parsed == IF file.ex THEN Parse(file.bytes) ELSE ParseOk(EmptyObject, <<>>)
           applied == Apply(op[t].fn, parsed.v)
       IN  IF ~parsed.ok
           THEN /\ Finish(t, Result("json::exception", JNull, FALSE))
                /\ UNCHANGED loc
           ELSE IF ~applied.ok
           THEN /\ Finish(t, Result("exception", JNull, FALSE))
                /\ loc' = [loc EXCEPT ![t].data = parsed.v, ![t].failed = TRUE]
           ELSE /\ loc' = [loc EXCEPT ![t].data = parsed.v, ![t].new_data = applied.v]
                /\ Goto(t, "wi_open")
                /\ UNCHANGED <<ret, mutex>>
    /\ UNCHANGED <<journalVars, gz, cfg, file, tmp, backups, now, built, op, pre, nops, commits, written, crashed, faults>>

\* JSONStore::delete_file up to the removal
delete_file(t) ==
    /\ At(t, "delete_file")
    /\ IF ~file.ex
       THEN /\ Finish(t, Result("ok", JNull, FALSE))
            /\ UNCHANGED loc
       ELSE /\ loc' = [loc EXCEPT ![t].after = "remove"]
            /\ Goto(t, IF op[t].flag THEN "create_backup" ELSE "remove")
            /\ UNCHANGED <<ret, mutex>>
    /\ UNCHANGED <<journalVars, gz, cfg, file, tmp, backups, now, built, op, pre, nops, commits, written, crashed, faults>>

\* fs::remove(file_path_); return true
remove_file(t) ==
    /\ At(t, "remove")
    /\ file' = NoFile
    /\ Finish(t, Result("ok", JNull, TRUE))
    /\ UNCHANGED <<journalVars, gz, cfg, tmp, backups, now, built, op, loc, pre, nops, commits, written, crashed, faults>>

\* std::string::find(pattern) != npos
find(str, pattern) ==
    \E i \in 1..(Len(str) - Len(pattern) + 1) : SubSeq(str, i, i + Len(pattern) - 1) = pattern

\* p.stem() and p.extension() of file_path_ "data/doc.json", as character codes
\* (an extension is its dot and its first letter)
stem == <<100, 111, 99>>
extension == <<46, 106>>

\* The stems of two other stores of the same directory, "data/xdoc.json" and
\* "data/log.json"
OtherStems == {<<120, 100, 111, 99>>, <<108, 111, 103>>}

\* stem + "_backup_" + timestamp + extension: the file name of the backup a store
\* of stem s makes at the second stamp (the timestamp is one code)
backup_name(s, stamp) == s \o <<95, 98, 97, 99, 107, 117, 112, 95>> \o <<48 + stamp>> \o extension

\* pattern of cleanup_old_backups_: p.stem().string() + "_backup_"
backup_pattern == stem \o <<95, 98, 97, 99, 107, 117, 112, 95>>

\* create_backup_ up to cleanup_old_backups_: the name is the clock's second, and
\* copy_file overwrites a backup of the same name
create_backup_(t) ==
    /\ At(t, "create_backup")
    /\ IF ~file.ex
       THEN /\ Goto(t, loc[t].after)
            /\ UNCHANGED backups
       ELSE /\ backups' = {b \in backups : ~(b.stem = stem /\ b.name = now)}
                            \cup {[stem |-> stem, name |-> now, bytes |-> file.bytes, mtime |-> now]}
            /\ Goto(t, "cleanup_old_backups")
    /\ UNCHANGED <<journalVars, gz, cfg, file, tmp, now, built, mutex, op, loc, ret, pre, nops, commits,
                   written, crashed, faults>>

\* Another store of the directory, of stem s, makes a backup of its document
\* (an empty object); its own pruning, with the default max_backups = 5, has
\* nothing to remove
OtherBackup(s) ==
    /\ built
    /\ backups' = {b \in backups : ~(b.stem = s /\ b.name = now)}
                     \cup {[stem |-> s, name |-> now, bytes |-> Serialize(EmptyObject), mtime |-> now]}
    /\ UNCHANGED <<journalVars, gz, cfg, file, tmp, now, built, mutex, pc, op, loc, ret, pre, nops,
                   commits, written, crashed, faults>>

\* the pruning as it would be with the sort oldest first
Pruned_oldest(bs, max_backups) ==
    {kept \in SUBSET bs :
        /\ Cardinality(kept) = IF Cardinality(bs) < max_backups THEN Cardinality(bs)
                               ELSE max_backups
        /\ \A k \in kept : \A d \in bs \ kept : k.mtime <= d.mtime}

\* what std::sort by last_write_time, newest first, and the removal of the entries
\* from index max_backups_ on can leave of the set bs
Pruned(bs, max_backups) ==
    {kept \in SUBSET bs :
        /\ Cardinality(kept) = IF Cardinality(bs) < max_backups THEN Cardinality(bs)
                               ELSE max_backups
        /\ \A k \in kept : \A d \in bs \ kept : k.mtime >= d.mtime}

\* the files of the set bs that cleanup_old_backups_ collects: those whose file
\* name contains the pattern
Matched(bs) == {b \in bs : find(backup_name(b.stem, b.name), backup_pattern)}

\* cleanup_old_backups_: fs::directory_iterator(p.parent_path()) throws a
\* filesystem_error when file_path_ has no directory part (the path is empty);
\* delete_file catches it and throws a JSONStoreError, write lets it through.
\* The loop goes over every entry of the directory, the document included:
\* were its name to contain the pattern, it could be removed as well
cleanup_old_backups_(t) ==
    /\ At(t, "cleanup_old_backups")
    /\ IF ~cfg.has_dir
       THEN /\ Finish(t, Result(IF op[t].kind = "delete_file" THEN "JSONStoreError"
                                ELSE "filesystem_error", JNull, FALSE))
            /\ UNCHANGED <<backups, file>>
       ELSE /\ \E kept \in Pruned(Matched(backups), cfg.max_backups) :
                  backups' = (backups \ Matched(backups)) \cup kept
            /\ file' \in IF find(stem \o extension, backup_pattern) THEN {file, NoFile} ELSE {file}
            /\ Goto(t, loc[t].after)
            /\ UNCHANGED <<ret, mutex>>
    /\ UNCHANGED <<journalVars, gz, cfg, tmp, now, built, op, loc, pre, nops, commits, written, crashed, faults>>

\* write_internal_ as it would be if the stream were opened on file_path_ itself
wi_open_in_place(t) ==
    /\ At(t, "wi_open")
    /\ tmp' = FileOf(<<>>)
    /\ file' = FileOf(<<>>)
    /\ loc' = [loc EXCEPT ![t].n = 0, ![t].bad = FALSE]
    /\ Goto(t, "wi_write")
    /\ UNCHANGED <<journalVars, gz, cfg, backups, now, built, mutex, op, ret, pre, nops, commits,
                   written, crashed, faults>>

\* write_internal_: std::ofstream file(temp_file) creates or truncates the file
wi_open(t) ==
    /\ At(t, "wi_open")
    /\ tmp' = FileOf(<<>>)
    /\ loc' = [loc EXCEPT ![t].n = 0, ![t].bad = FALSE]
    /\ Goto(t, "wi_write")
    /\ UNCHANGED <<journalVars, gz, cfg, file, backups, now, built, mutex, op, ret, pre, nops, commits,
                   written, crashed, faults>>

\* the tokens the stream is given by each step of file << data << std::endl
ChunkLen == 3
Min(a, b) == IF a < b THEN a ELSE b

\* the catch clause of write_internal_: remove the temporary file, throw JSONStoreError
wi_catch(t) ==
    /\ tmp' = NoFile
    /\ Finish(t, Result("JSONStoreError", JNull, FALSE))

\* write_internal_: file << std::setw(indent_) << data << std::endl, a chunk at a
\* time.  dump throws at a string that is not UTF-8; a stream whose badbit is set
\* ignores what it is given and throws nothing.
wi_write(t) ==
    /\ At(t, "wi_write")
    /\ LET toks == Serialize(loc[t].new_data)
           upto == Min(loc[t].n + ChunkLen, Len(toks))
           chunk == SubSeq(toks, loc[t].n + 1, upto)
           throws == \E i \in 1..Len(chunk) : chunk[i] = Quote(BadUtf8)
       IN  IF throws
           THEN /\ wi_catch(t)
                /\ loc' = [loc EXCEPT ![t].failed = TRUE]
           ELSE /\ tmp' = IF loc[t].bad \/ ~tmp.ex THEN tmp ELSE FileOf(tmp.bytes \o chunk)
                /\ loc' = [loc EXCEPT ![t].n = upto]
                /\ Goto(t, IF upto = Len(toks) THEN "wi_rename" ELSE "wi_write")
                /\ UNCHANGED <<ret, mutex>>
    /\ UNCHANGED <<journalVars, gz, cfg, file, backups, now, built, op, pre, nops, commits, written, crashed, faults>>

\* write_internal_: file.close(); fs::rename(temp_file, file_path_); and the return
\* of the operation that called it
wi_rename(t) ==
    /\ At(t, "wi_rename")
    /\ tmp.ex
    /\ file' = tmp
    /\ tmp' = NoFile
    /\ Finish(t, ReturnOf(t))
    /\ built' = TRUE
    /\ commits' = IF op[t].kind = "update"
                  THEN Append(commits, [fn |-> op[t].fn, input |-> loc[t].data,
                                        output |-> loc[t].new_data, by |-> t])
                  ELSE commits
    /\ written' = IF op[t].kind = "write" THEN [valid |-> TRUE, v |-> op[t].data]
                  ELSE written
    /\ UNCHANGED <<journalVars, gz, cfg, backups, now, op, loc, pre, nops, crashed, faults>>

\* the clock advances; only create_backup_ reads it, so the model lets it advance
\* only when a thread is about to read it
Tick ==
    /\ ~crashed
    /\ \E t \in Threads : pc[t] = "create_backup"
    /\ now < MaxTime
    /\ now' = now + 1
    /\ UNCHANGED <<journalVars, gz, cfg, file, tmp, backups, built, mutex, pc, op, loc, ret, pre, nops,
                   commits, written, crashed, faults>>

(***************************************************************************)
(* What the environment can do to a call: kill the process, or make a      *)
(* filesystem call fail.                                                   *)
(***************************************************************************)
\* the process is killed; the files stay as they are
Crash ==
    /\ ~crashed
    /\ crashed' = TRUE
    /\ UNCHANGED <<journalVars, gz, cfg, file, tmp, backups, now, built, mutex, pc, op, loc, ret, pre, nops,
                   commits, written, faults>>

\* std::ofstream file(temp_file) cannot open the file: write_internal_ throws
\* inside its try block and the catch clause runs
OpenFails(t) ==
    /\ At(t, "wi_open")
    /\ faults < MaxFaults
    /\ faults' = faults + 1
    /\ wi_catch(t)
    /\ loc' = [loc EXCEPT ![t].failed = TRUE]
    /\ UNCHANGED <<journalVars, gz, cfg, file, backups, now, built, op, pre, nops, commits, written, crashed>>

\* a write to the temporary file fails (disk full, I/O error): the stream sets its
\* badbit; its exception mask is the default, so nothing is thrown, and
\* write_internal_ never tests the stream
StreamFails(t) ==
    /\ At(t, "wi_write")
    /\ ~loc[t].bad
    /\ faults < MaxFaults
    /\ faults' = faults + 1
    /\ loc' = [loc EXCEPT ![t].bad = TRUE, ![t].failed = TRUE]
    /\ UNCHANGED <<journalVars, gz, cfg, file, tmp, backups, now, built, mutex, pc, op, ret, pre, nops,
                   commits, written, crashed>>

\* fs::rename throws: the catch clause of write_internal_ runs
RenameFails(t) ==
    /\ At(t, "wi_rename")
    /\ faults < MaxFaults
    /\ faults' = faults + 1
    /\ wi_catch(t)
    /\ loc' = [loc EXCEPT ![t].failed = TRUE]
    /\ UNCHANGED <<journalVars, gz, cfg, file, backups, now, built, op, pre, nops, commits, written, crashed>>

\* fs::copy_file throws in create_backup_: write lets the filesystem_error through,
\* delete_file catches it and throws a JSONStoreError
CopyFails(t) ==
    /\ At(t, "create_backup")
    /\ file.ex
    /\ faults < MaxFaults
    /\ faults' = faults + 1
    /\ Finish(t, Result(IF op[t].kind = "delete_file" THEN "JSONStoreError"
                        ELSE "filesystem_error", JNull, FALSE))
    /\ UNCHANGED <<journalVars, gz, cfg, file, tmp, backups, now, built, op, loc, pre, nops, commits,
                   written, crashed>>

(***************************************************************************)
(* The initial states: a store about to be constructed on a path where a   *)
(* document may already exist.                                             *)
(***************************************************************************)
Configs ==
    [auto_create : BOOLEAN, auto_backup : BOOLEAN, max_backups : 0..MaxBackupsCfg,
     validator : BOOLEAN, has_dir : BOOLEAN]

InitFiles == {NoFile, FileOf(Serialize(JArr(<<JInt(1)>>)))}

\* the threads and the store's directory before the constructor runs
InitThreads(nthreads) ==
    /\ tmp = NoFile
    /\ backups = {}
    /\ now = 1
    /\ built = FALSE
    /\ mutex = 0
    /\ pc = [t \in Threads |-> IF t = 1 THEN "new" ELSE IF t <= nthreads THEN "done" ELSE "off"]
    /\ op = [t \in Threads |-> NoCall]
    /\ loc = [t \in Threads |-> NoLoc]
    /\ ret = [t \in Threads |-> NoResult]
    /\ pre = [t \in Threads |-> [file |-> NoFile, tmp |-> NoFile, backups |-> {}]]
    /\ nops = 0
    /\ commits = <<>>
    /\ written = NoWrite
    /\ crashed = FALSE
    /\ faults = 0

InitStore(nthreads) ==
    /\ cfg \in Configs
    /\ file \in InitFiles
    /\ gz = NoFile
    /\ InitThreads(nthreads)

\* no journal
NoName == [day |-> 0, stamp |-> -1]
InitNoJournal ==
    /\ jcfg = [max_entries |-> 0, auto_rotate |-> FALSE]
    /\ jfiles = <<>>
    /\ cur = NoName
    /\ jclock = [day |-> 0, sec |-> 0]
    /\ added = <<>>
    /\ jmtime = <<>>
    /\ others = <<>>
    /\ jret = <<>>

Init == InitStore(1) /\ InitNoJournal

Step(t) ==
    \/ lock_guard(t)
    \/ read(t)
    \/ write(t)
    \/ update(t)
    \/ delete_file(t)
    \/ remove_file(t)
    \/ create_backup_(t)
    \/ cleanup_old_backups_(t)
    \/ wi_open(t)
    \/ wi_write(t)
    \/ wi_rename(t)

Next ==
    \/ Construct
    \/ Tick
    \/ \E t \in Threads : CallRead(t)
    \/ \E t \in Threads : CallWrite(t)
    \/ \E t \in Threads : CallUpdate(t)
    \/ \E t \in Threads : CallDelete(t)
    \/ \E t \in Threads : Step(t)

Spec == Init /\ [][Next]_vars

\* the same store, in a process that can be killed at any step
NextCrash == Next \/ Crash
SpecCrash == Init /\ [][NextCrash]_vars

\* the same store, on a filesystem whose calls can fail
NextFault ==
    \/ Next
    \/ \E t \in Threads : OpenFails(t)
    \/ \E t \in Threads : StreamFails(t)
    \/ \E t \in Threads : RenameFails(t)
    \/ \E t \in Threads : CopyFails(t)
SpecFault == Init /\ [][NextFault]_vars

\* a store whose caller only updates and reads
NextUpdate ==
    \/ Construct
    \/ \E t \in Threads : CallRead(t)
    \/ \E t \in Threads : CallUpdate(t)
    \/ \E t \in Threads : lock_guard(t)
    \/ \E t \in Threads : read(t)
    \/ \E t \in Threads : update(t)
    \/ \E t \in Threads : wi_open(t)
    \/ \E t \in Threads : wi_write(t)
    \/ \E t \in Threads : wi_rename(t)
SpecUpdate == Init /\ [][NextUpdate]_vars

(***************************************************************************)
(* One store object shared by NThreads threads that call update, directly  *)
(* or through the mutators of the views.                                   *)
(***************************************************************************)
DefaultConfig ==
    [auto_create |-> TRUE, auto_backup |-> TRUE, max_backups |-> MaxBackupsCfg,
     validator |-> FALSE, has_dir |-> TRUE]

Mutators ==
    {Fn("set", "a", JInt(2), 0, FALSE), Fn("delete_key", "a", JNull, 0, FALSE),
     Fn("append", "", JInt(3), 0, FALSE), Fn("remove_at", "", JNull, 0, FALSE),
     Fn("filter", "gt2", JNull, 0, FALSE)}

CallMutator(t) == \E f \in Mutators : Begin(t, Call("update", JNull, FALSE, f))

InitConc ==
    /\ InitStore(NThreads)
    /\ InitNoJournal
    /\ cfg = DefaultConfig

NextConc ==
    \/ Construct
    \/ \E t \in Threads : CallMutator(t)
    \/ \E t \in Threads : lock_guard(t)
    \/ \E t \in Threads : update(t)
    \/ \E t \in Threads : wi_open(t)
    \/ \E t \in Threads : wi_write(t)
    \/ \E t \in Threads : wi_rename(t)
SpecConc == InitConc /\ [][NextConc]_vars

(***************************************************************************)
(* compress and decompress.  Neither takes mutex_.  A gzip file is a header, *)
(* the data and a trailer; gzread gives the data of a gzip file, what it     *)
(* could decode of one that is cut short, and the bytes themselves of a file *)
(* that is not gzip.                                                         *)
(***************************************************************************)
\* sizeof(buffer), in tokens
BufferLen == 4

\* what gzwrite and gzclose leave in the file
Deflate(data) == <<"gzip">> \o data \o <<"eos">>

\* what the gzread loop gets: [data, err], err when gzread ends with -1
Inflate(bytes) ==
    IF bytes = <<>> THEN [data |-> <<>>, err |-> FALSE]
    ELSE IF Head(bytes) # "gzip" THEN [data |-> bytes, err |-> FALSE]
    ELSE IF Len(bytes) >= 2 /\ bytes[Len(bytes)] = "eos"
    THEN [data |-> SubSeq(bytes, 2, Len(bytes) - 1), err |-> FALSE]
    ELSE [data |-> Tail(bytes), err |-> TRUE]

\* JSONStore::compress up to the loop: the existence test, then source and dest
\* are opened; gzopen(final_output, "wb") creates or truncates the file
compress(t) ==
    /\ At(t, "compress")
    /\ IF ~file.ex
       THEN /\ Finish(t, Result("FileNotFoundError", JNull, FALSE))
            /\ loc' = [loc EXCEPT ![t].failed = TRUE]
            /\ UNCHANGED gz
       ELSE /\ gz' = FileOf(<<>>)
            /\ loc' = [loc EXCEPT ![t].buf = file.bytes, ![t].n = 0]
            /\ Goto(t, "c_copy")
            /\ UNCHANGED <<ret, mutex>>
    /\ UNCHANGED <<journalVars, cfg, file, tmp, backups, now, built, op, pre, nops, commits,
                   written, crashed, faults>>

\* while (source.read(buffer, sizeof(buffer))) gzwrite(dest, buffer, source.gcount()):
\* a read that meets the end of the file before the buffer is full sets failbit,
\* so what it read is not written
c_copy(t) ==
    /\ At(t, "c_copy")
    /\ IF loc[t].n + BufferLen <= Len(loc[t].buf)
       THEN /\ loc' = [loc EXCEPT ![t].n = @ + BufferLen]
            /\ UNCHANGED pc
       ELSE /\ Goto(t, "c_close")
            /\ UNCHANGED loc
    /\ UNCHANGED <<journalVars, gz, cfg, file, tmp, backups, now, built, mutex, op, ret, pre,
                   nops, commits, written, crashed, faults>>

\* source.close(); gzclose(dest); return final_output
c_close(t) ==
    /\ At(t, "c_close")
    /\ gz' = FileOf(Deflate(SubSeq(loc[t].buf, 1, loc[t].n)))
    /\ Finish(t, Result("ok", JNull, TRUE))
    /\ UNCHANGED <<journalVars, cfg, file, tmp, backups, now, built, op, loc, pre, nops,
                   commits, written, crashed, faults>>

\* JSONStore::decompress up to the loop: the existence test, then source and dest
\* are opened; std::ofstream dest(file_path_) creates or truncates the document
decompress(t) ==
    /\ At(t, "decompress")
    /\ IF ~gz.ex
       THEN /\ Finish(t, Result("FileNotFoundError", JNull, FALSE))
            /\ loc' = [loc EXCEPT ![t].failed = TRUE]
            /\ UNCHANGED file
       ELSE /\ file' = FileOf(<<>>)
            /\ loc' = [loc EXCEPT ![t].buf = Inflate(gz.bytes).data, ![t].n = 0,
                                  ![t].bad = Inflate(gz.bytes).err]
            /\ Goto(t, "d_copy")
            /\ UNCHANGED <<ret, mutex>>
    /\ UNCHANGED <<journalVars, gz, cfg, tmp, backups, now, built, op, pre, nops, commits,
                   written, crashed, faults>>

\* while ((bytes = gzread(source, buffer, sizeof(buffer))) > 0) dest.write(buffer, bytes).
\* dest writes to the file it opened: when another thread has since renamed a
\* file over file_path_, or removed it, the path no longer names that file.
d_copy(t) ==
    /\ At(t, "d_copy")
    /\ LET upto == Min(loc[t].n + BufferLen, Len(loc[t].buf))
           chunk == SubSeq(loc[t].buf, loc[t].n + 1, upto)
           mine == file.ex /\ file.bytes = SubSeq(loc[t].buf, 1, loc[t].n)
       IN  IF loc[t].n < Len(loc[t].buf)
           THEN /\ file' = IF mine THEN FileOf(file.bytes \o chunk) ELSE file
                /\ loc' = [loc EXCEPT ![t].n = upto]
                /\ UNCHANGED pc
           ELSE /\ Goto(t, "d_close")
                /\ loc' = [loc EXCEPT ![t].failed = loc[t].bad]
                /\ UNCHANGED file
    /\ UNCHANGED <<journalVars, gz, cfg, tmp, backups, now, built, mutex, op, ret, pre, nops,
                   commits, written, crashed, faults>>

\* gzclose(source); dest.close(); the error gzread ended with is not looked at
d_close(t) ==
    /\ At(t, "d_close")
    /\ Finish(t, Result("ok", JNull, TRUE))
    /\ UNCHANGED <<journalVars, gz, cfg, file, tmp, backups, now, built, op, loc, pre, nops,
                   commits, written, crashed, faults>>

\* gzopen(compressed_path, "rb") gives NULL (the file cannot be read); dest is
\* opened all the same, then decompress throws JSONStoreError
GzOpenFails(t) ==
    /\ At(t, "decompress")
    /\ gz.ex
    /\ faults < MaxFaults
    /\ faults' = faults + 1
    /\ file' = FileOf(<<>>)
    /\ loc' = [loc EXCEPT ![t].failed = TRUE]
    /\ Finish(t, Result("JSONStoreError", JNull, FALSE))
    /\ UNCHANGED <<journalVars, gz, cfg, tmp, backups, now, built, op, pre, nops, commits,
                   written, crashed>>

\* std::ofstream dest(file_path_) cannot open the document: decompress throws
\* JSONStoreError
DestOpenFails(t) ==
    /\ At(t, "decompress")
    /\ gz.ex
    /\ faults < MaxFaults
    /\ faults' = faults + 1
    /\ loc' = [loc EXCEPT ![t].failed = TRUE]
    /\ Finish(t, Result("JSONStoreError", JNull, FALSE))
    /\ UNCHANGED <<journalVars, gz, cfg, file, tmp, backups, now, built, op, pre, nops,
                   commits, written, crashed>>

\* std::ifstream source(file_path_) cannot open the document: gzopen has made
\* the compressed file all the same, then compress throws JSONStoreError
SourceOpenFails(t) ==
    /\ At(t, "compress")
    /\ file.ex
    /\ faults < MaxFaults
    /\ faults' = faults + 1
    /\ gz' = FileOf(<<>>)
    /\ loc' = [loc EXCEPT ![t].failed = TRUE]
    /\ Finish(t, Result("JSONStoreError", JNull, FALSE))
    /\ UNCHANGED <<journalVars, cfg, file, tmp, backups, now, built, op, pre, nops, commits,
                   written, crashed>>

\* JSONStore::exists
exists(t) ==
    /\ At(t, "exists")
    /\ Finish(t, Result("ok", JNull, file.ex))
    /\ UNCHANGED <<journalVars, gz, cfg, file, tmp, backups, now, built, op, loc, pre, nops,
                   commits, written, crashed, faults>>

\* JSONStore::get_size up to fs::file_size: 0 when the file is absent
get_size(t) ==
    /\ At(t, "get_size")
    /\ IF ~file.ex
       THEN Finish(t, Result("ok", JInt(0), TRUE))
       ELSE Goto(t, "file_size") /\ UNCHANGED <<ret, mutex>>
    /\ UNCHANGED <<journalVars, gz, cfg, file, tmp, backups, now, built, op, loc, pre, nops,
                   commits, written, crashed, faults>>

\* return fs::file_size(file_path_), which throws when the file has gone since
file_size(t) ==
    /\ At(t, "file_size")
    /\ Finish(t, IF file.ex THEN Result("ok", JInt(Len(file.bytes)), TRUE)
                 ELSE Result("filesystem_error", JNull, FALSE))
    /\ UNCHANGED <<journalVars, gz, cfg, file, tmp, backups, now, built, op, loc, pre, nops,
                   commits, written, crashed, faults>>

QueryCalls == {Call("exists", JNull, FALSE, NoFn), Call("get_size", JNull, FALSE, NoFn)}
CallQuery(t) == \E c \in QueryCalls : Begin(t, c)

CodecCalls == {Call("compress", JNull, FALSE, NoFn), Call("decompress", JNull, FALSE, NoFn)}
CallCodec(t) == \E c \in CodecCalls : Begin(t, c)

\* the calls the other threads make while one compresses or decompresses
PeerCalls ==
    {Call("read", JNull, FALSE, NoFn),
     Call("write", JObj([k \in {"a"} |-> JInt(1)]), TRUE, NoFn),
     Call("update", JNull, FALSE, Fn("set", "a", JInt(2), 0, FALSE)),
     Call("delete_file", JNull, FALSE, NoFn)}
CallPeer(t) == \E c \in PeerCalls : Begin(t, c)

\* the compressed files a store can find: none, one compress made of a document
GzFiles == {NoFile, FileOf(Deflate(Serialize(JArr(<<JInt(1), JInt(2)>>))))}

\* one made by compress and cut short since
CutGz == FileOf(<<"gzip">> \o SubSeq(Serialize(JArr(<<JInt(1), JInt(2)>>)), 1, 3))

CodecStep(t) ==
    \/ compress(t)
    \/ c_copy(t)
    \/ c_close(t)
    \/ decompress(t)
    \/ d_copy(t)
    \/ d_close(t)

\* one store object: thread 1 compresses, decompresses and asks whether the file
\* exists and for its size, every thread reads, writes, updates and deletes
InitCodec ==
    /\ cfg = DefaultConfig
    /\ file \in InitFiles
    /\ gz \in GzFiles
    /\ InitThreads(NThreads)
    /\ InitNoJournal

NextCodec ==
    \/ Construct
    \/ Tick
    \/ CallCodec(1)
    \/ CallQuery(1)
    \/ \E t \in Threads : CallPeer(t)
    \/ \E t \in Threads : exists(t)
    \/ \E t \in Threads : get_size(t)
    \/ \E t \in Threads : file_size(t)
    \/ \E t \in Threads : Step(t)
    \/ \E t \in Threads : CodecStep(t)
SpecCodec == InitCodec /\ [][NextCodec]_vars

\* the same threads, on a store whose document and compressed file both exist
\* and whose backups are all made within one second
InitLock ==
    /\ cfg = DefaultConfig
    /\ file = FileOf(Serialize(JArr(<<JInt(1)>>)))
    /\ gz = FileOf(Deflate(Serialize(JArr(<<JInt(1), JInt(2)>>))))
    /\ InitThreads(NThreads)
    /\ InitNoJournal
NextLock ==
    \/ Construct
    \/ CallCodec(1)
    \/ CallQuery(1)
    \/ \E t \in Threads : CallPeer(t)
    \/ \E t \in Threads : exists(t)
    \/ \E t \in Threads : get_size(t)
    \/ \E t \in Threads : file_size(t)
    \/ \E t \in Threads : Step(t)
    \/ \E t \in Threads : CodecStep(t)
SpecLock == InitLock /\ [][NextLock]_vars

\* one thread compresses and decompresses, on a filesystem whose calls can fail
\* and with a compressed file that can have been cut short
InitCodecFault ==
    /\ cfg = DefaultConfig
    /\ file \in InitFiles
    /\ gz \in GzFiles \cup {CutGz}
    /\ InitThreads(1)
    /\ InitNoJournal

NextCodecFault ==
    \/ Construct
    \/ CallCodec(1)
    \/ \E t \in Threads : CodecStep(t)
    \/ \E t \in Threads : GzOpenFails(t)
    \/ \E t \in Threads : DestOpenFails(t)
    \/ \E t \in Threads : SourceOpenFails(t)
    \/ \E t \in Threads : wi_open(t)
    \/ \E t \in Threads : wi_write(t)
    \/ \E t \in Threads : wi_rename(t)
SpecCodecFault == InitCodecFault /\ [][NextCodecFault]_vars

\* the documents a round trip starts from: none (the constructor writes {}),
\* and arrays of less than a buffer, of one buffer, of a buffer and a half, of
\* two buffers and of two and a half
RoundTripFiles ==
    {NoFile} \cup {FileOf(Serialize(JArr([i \in 1..n |-> JInt(i)]))) : n \in 0..4}

\* one thread compresses and decompresses a store that has no compressed file yet
InitRoundTrip ==
    /\ cfg = DefaultConfig
    /\ file \in RoundTripFiles
    /\ gz = NoFile
    /\ InitThreads(1)
    /\ InitNoJournal

NextRoundTrip ==
    \/ Construct
    \/ CallCodec(1)
    \/ \E t \in Threads : CodecStep(t)
    \/ \E t \in Threads : wi_open(t)
    \/ \E t \in Threads : wi_write(t)
    \/ \E t \in Threads : wi_rename(t)
SpecRoundTrip == InitRoundTrip /\ [][NextRoundTrip]_vars

(***************************************************************************)
(* The views.  A DictJSONStore or a ListJSONStore is a JSONStore constructed *)
(* with the default arguments; its mutators call update with a lambda, its  *)
(* queries call read with an empty object or array as the default.          *)
(***************************************************************************)
\* ListJSONStore::get_at after data = read(array())
get_at(index, default_value, data) ==
    IF is_array(data) /\ index >= 0 /\ index < Len(data.items)
    THEN data.items[index + 1]
    ELSE default_value

\* what a call of a view gives its caller, once update or read has returned:
\* delete_key and remove return true, remove_at the item it erased, get_at and
\* length what they find in the document read
ViewReturn(t) ==
    LET fn == op[t].fn IN
    IF ret[t].st # "ok" THEN ret[t]
    ELSE CASE fn.f \in {"delete_key", "remove"} -> Result("ok", JNull, TRUE)
           [] fn.f = "remove_at" -> Result("ok", get_at(fn.idx, JNull, loc[t].data), TRUE)
           [] fn.f = "get_at" -> Result("ok", get_at(fn.idx, fn.val, ret[t].val), TRUE)
           [] fn.f = "length" ->
                Result("ok", JInt(IF is_array(ret[t].val) THEN Len(ret[t].val.items) ELSE 0), TRUE)
           [] OTHER -> ret[t]

\* the calls made on a DictJSONStore
DictCalls ==
    {Call("update", JNull, FALSE, f) :
        f \in {Fn("set", "a", JInt(2), 0, FALSE), Fn("set", "b", JStr("x"), 0, FALSE),
               Fn("delete_key", "a", JNull, 0, FALSE), Fn("delete_key", "b", JNull, 0, FALSE)}}

\* the calls made on a ListJSONStore
ListCalls ==
    {Call("update", JNull, FALSE, f) :
        f \in {Fn("append", "", JInt(3), 0, FALSE), Fn("append", "", JInt(4), 0, FALSE),
               Fn("extend", "", JArr(<<JInt(5), JInt(3)>>), 0, FALSE),
               Fn("filter", "gt2", JNull, 0, FALSE), Fn("filter", "odd", JNull, 0, FALSE)}}
    \cup {Call("read", EmptyArray, TRUE, Fn("get_at", "", JNull, i, FALSE)) : i \in 0..1}
    \cup {Call("read", EmptyArray, TRUE, Fn("length", "", JNull, 0, FALSE))}

CallDict(t) == \E c \in DictCalls : BeginWithin(t, c, MaxViewOps)
CallList(t) == \E c \in ListCalls : BeginWithin(t, c, MaxViewOps)

\* the documents a view can be constructed on: none, an object, an array
DictFiles ==
    {NoFile, FileOf(Serialize(JObj([k \in {"a"} |-> JInt(1)]))),
     FileOf(Serialize(JArr(<<JInt(1)>>)))}
ListFiles ==
    {NoFile, FileOf(Serialize(EmptyArray)),
     FileOf(Serialize(JArr(<<JInt(1), JInt(2), JInt(3), JInt(4)>>)))}

\* DictJSONStore(file_path) and ListJSONStore(file_path): JSONStore(file_path),
\* on a path with or without a directory part
ViewConfigs == {[DefaultConfig EXCEPT !.has_dir = d] : d \in BOOLEAN}

InitDict ==
    /\ cfg \in ViewConfigs
    /\ file \in DictFiles
    /\ gz = NoFile
    /\ InitThreads(1)
    /\ InitNoJournal

InitList ==
    /\ cfg \in ViewConfigs
    /\ file \in ListFiles
    /\ gz = NoFile
    /\ InitThreads(1)
    /\ InitNoJournal

NextDict ==
    \/ Construct
    \/ \E t \in Threads : CallDict(t)
    \/ \E t \in Threads : lock_guard(t)
    \/ \E t \in Threads : update(t)
    \/ \E t \in Threads : wi_open(t)
    \/ \E t \in Threads : wi_write(t)
    \/ \E t \in Threads : wi_rename(t)
SpecDict == InitDict /\ [][NextDict]_vars

\* the calls of merge made on a DictJSONStore
MergeCalls ==
    {Call("update", JNull, FALSE, Fn("merge", "", other, 0, overwrite)) :
        other \in {JObj([k \in {"a"} |-> JInt(5)]),
                   JObj([k \in {"a", "b"} |-> IF k = "a" THEN JInt(7) ELSE JStr("y")])},
        overwrite \in BOOLEAN}
CallMerge(t) == \E c \in MergeCalls : BeginWithin(t, c, MaxViewOps)

NextMerge ==
    \/ Construct
    \/ \E t \in Threads : CallMerge(t)
    \/ \E t \in Threads : lock_guard(t)
    \/ \E t \in Threads : update(t)
    \/ \E t \in Threads : wi_open(t)
    \/ \E t \in Threads : wi_write(t)
    \/ \E t \in Threads : wi_rename(t)
SpecMerge == InitDict /\ [][NextMerge]_vars

NextList ==
    \/ Construct
    \/ \E t \in Threads : CallList(t)
    \/ \E t \in Threads : lock_guard(t)
    \/ \E t \in Threads : read(t)
    \/ \E t \in Threads : update(t)
    \/ \E t \in Threads : wi_open(t)
    \/ \E t \in Threads : wi_write(t)
    \/ \E t \in Threads : wi_rename(t)
SpecList == InitList /\ [][NextList]_vars

(***************************************************************************)
(* LogStore: the journal.  A log file's name is [day, stamp]: stamp = -1   *)
(* for the daily file prefix_YYYYMMDD.json, and the second of the day for  *)
(* a file prefix_YYYYMMDD_HHMMSS.json made by rotate_.  One thread calls   *)
(* the journal, so each call is one step.                                  *)
(***************************************************************************)
Daily(day) == [day |-> day, stamp |-> -1]
Stamped(day, sec) == [day |-> day, stamp |-> sec]
Names == [day : 1..MaxDay, stamp : -1..MaxSec]

\* File names are strings of character codes.  prefix_ is "app"; a fixed-width
\* group of digits (YYYYMMDD, HHMMSS) is one code, 48 + its number; an
\* extension is its dot and its first letter.
prefix_ == <<97, 112, 112>>

\* the file name rotate_ would make with "-" for "_" before the time
FileName_dash(n) ==
    prefix_ \o <<95, 48 + n.day>>
            \o (IF n.stamp >= 0 THEN <<45, 48 + n.stamp>> ELSE <<>>) \o <<46, 106>>

\* prefix_ + "_" + YYYYMMDD + ".json" of get_current_file_path_, and
\* prefix_ + "_" + YYYYMMDD_HHMMSS + ".json" of rotate_
FileName(n) ==
    prefix_ \o <<95, 48 + n.day>>
            \o (IF n.stamp >= 0 THEN <<95, 48 + n.stamp>> ELSE <<>>) \o <<46, 106>>

\* Other files a directory can hold: "myapp_<YYYYMMDD>.json", the daily file of
\* a journal whose prefix is "myapp"; "err_<YYYYMMDD>.json", the daily file of a
\* journal whose prefix is "err"; "app_notes.txt".
OtherNames == {"myapp", "err", "notes"}
OtherFileName(o) ==
    CASE o = "myapp" -> <<109, 121>> \o prefix_ \o <<95, 49, 46, 106>>
      [] o = "err" -> <<101, 114, 114, 95, 49, 46, 106>>
      [] OTHER -> prefix_ \o <<95, 110, 46, 116>>
NoOther == [ex |-> FALSE, bytes |-> <<>>, mtime |-> 0]

\* the entries of the directory, as directory_iterator gives them: [path, f]
DirEntries ==
    {[path |-> FileName(n), f |-> jfiles[n]] : n \in {m \in Names : jfiles[m].ex}}
    \cup {[path |-> OtherFileName(o), f |-> FileOf(others[o].bytes)] :
              o \in {x \in OtherNames : others[x].ex}}

\* prefix_ + "_"
pattern == prefix_ \o <<95>>

\* get_current_file_path_: the daily file of today
get_current_file_path_ == Daily(jclock.day)

\* the constructor as it would be if it wrote the empty object whatever it found
NewListStore_always(files, name) == [files EXCEPT ![name] = FileOf(Serialize(EmptyObject))]

\* ListJSONStore(file_path): JSONStore's constructor with its default arguments
\* writes an empty object when the file is absent
NewListStore(files, name) ==
    IF ~files[name].ex THEN [files EXCEPT ![name] = FileOf(Serialize(EmptyObject))] ELSE files

\* read(nlohmann::json::array()) on a file that parses
ReadOr(f, default) == IF ~f.ex THEN default ELSE Parse(f.bytes).v

\* ListJSONStore::length
length(f) ==
    LET data == ReadOr(f, EmptyArray) IN IF is_array(data) THEN Len(data.items) ELSE 0

\* the rotation test as it would be with > for >=
Reached_gt(len, max_entries) == IF max_entries < 0 THEN FALSE ELSE len > max_entries

\* length >= max_entries_per_file_: a size_t against an int, which is converted
\* to unsigned, so a negative maximum is never reached
Reached(len, max_entries) == IF max_entries < 0 THEN FALSE ELSE len >= max_entries

\* rotate_ as it would be with the format of the daily file, "%Y%m%d"
rotate_daily == Daily(jclock.day)

\* rotate_: the name of the file it binds current_store_ to
rotate_ == Stamped(jclock.day, jclock.sec)

\* get_current_store_: [name, files, from], the store add_log appends to, the
\* directory after the constructions it made, and the file rotate_ left (NoName
\* when it did not rotate)
get_current_store_ ==
    LET path == get_current_file_path_
        rebind == cur = NoName \/ cur # path
        name1 == IF rebind THEN path ELSE cur
        files1 == IF rebind THEN NewListStore(jfiles, name1) ELSE jfiles
        rotate == jcfg.auto_rotate /\ Reached(length(files1[name1]), jcfg.max_entries)
        name2 == IF rotate THEN rotate_ ELSE name1
        files2 == IF rotate THEN NewListStore(files1, name2) ELSE files1
    IN  [name |-> name2, files |-> files2, from |-> IF rotate THEN name1 ELSE NoName]

\* ListJSONStore::append: update with the append lambda
append(f, item) == FileOf(Serialize(append_lambda(item, ReadOr(f, EmptyObject))))

\* the entry of the k-th call; the caller may have stamped it
Entry(k, stamped) ==
    IF stamped THEN JObj([x \in {"id", "timestamp"} |-> IF x = "id" THEN JInt(k) ELSE JInt(0)])
    ELSE JObj([x \in {"id"} |-> JInt(k)])

\* the clock as a number of seconds; a day has DayLen of them
DayLen == MaxSec + 1
Timestamp == jclock.day * DayLen + jclock.sec

NoJRet == [kind |-> "none", st |-> "none", filter |-> "none", logs |-> <<>>, count |-> 0,
           days |-> 0, fails |-> {}, pre |-> <<>>]
\* the directory as a call found it
JSnapshot == [files |-> jfiles, mtime |-> jmtime, others |-> others, at |-> Timestamp]

\* LogStore::add_log
add_log(log_entry) ==
    /\ Len(added) < MaxLogs
    /\ LET entry == IF ~contains(log_entry, "timestamp")
                    THEN ObjSet(log_entry, "timestamp", JInt(Timestamp))
                    ELSE log_entry
           store == get_current_store_
       IN  /\ jfiles' = [store.files EXCEPT ![store.name] = append(@, entry)]
           /\ jmtime' = [n \in Names |-> IF jfiles'[n] # jfiles[n] THEN Timestamp
                                          ELSE jmtime[n]]
           /\ cur' = store.name
           /\ added' = Append(added, [entry |-> entry, day |-> jclock.day,
                                      name |-> store.name, from |-> store.from])
    /\ jret' = [NoJRet EXCEPT !.kind = "add_log", !.st = "ok"]
    /\ UNCHANGED <<storeVars, jcfg, jclock, others>>

\* the caller stamps the first entry or none
AddLog ==
    \E stamped \in (IF added = <<>> THEN BOOLEAN ELSE {FALSE}) :
        add_log(Entry(Len(added) + 1, stamped))

\* operator< of std::filesystem::path on two files of one directory: the file
\* names compared character by character
PathLess(a, b) ==
    LET n == Min(Len(a), Len(b))
        diff == {i \in 1..n : a[i] # b[i]}
    IN  IF diff = {} THEN Len(a) < Len(b)
        ELSE LET i == CHOOSE k \in diff : \A j \in diff : k <= j IN a[i] < b[i]

\* std::sort(log_files.begin(), log_files.end())
RECURSIVE Sorted(_)
Sorted(entries) ==
    IF entries = {} THEN <<>>
    ELSE LET first == CHOOSE x \in entries :
                          \A y \in entries \ {x} : PathLess(x.path, y.path)
         IN  <<first>> \o Sorted(entries \ {first})

\* the loop over log_files: the items of every file that holds an array
RECURSIVE ReadLogs(_)
ReadLogs(log_files) ==
    IF log_files = <<>> THEN <<>>
    ELSE LET data == Parse(Head(log_files).f.bytes).v
         IN  (IF is_array(data) THEN data.items ELSE <<>>) \o ReadLogs(Tail(log_files))

\* the predicates a caller hands to get_logs
LogFilters == {"none", "odd_id"}

\* LogStore::get_logs; start_date and end_date are not used.  read throws
\* JSONStoreError on a file that does not parse.
get_logs(filter_func) ==
    LET log_files == Sorted({e \in DirEntries : find(e.path, pattern)})
        logs == ReadLogs(log_files)
        Keep(log) == FilterFunc(filter_func, log)
    IN  IF \E i \in 1..Len(log_files) : ~Parse(log_files[i].f.bytes).ok
        THEN [NoJRet EXCEPT !.kind = "get_logs", !.st = "JSONStoreError",
                            !.filter = filter_func]
        ELSE [NoJRet EXCEPT !.kind = "get_logs", !.st = "ok", !.filter = filter_func,
                            !.logs = IF filter_func # "none" THEN SelectSeq(logs, Keep)
                                     ELSE logs]

GetLogs ==
    /\ jret.kind # "get_logs"
    /\ \E filter_func \in LogFilters : jret' = get_logs(filter_func)
    /\ UNCHANGED <<storeVars, jcfg, jfiles, cur, jclock, added, jmtime, others>>

\* a second passes
JTick ==
    /\ jclock.sec < MaxSec
    /\ jclock' = [jclock EXCEPT !.sec = @ + 1]
    /\ UNCHANGED <<storeVars, jcfg, jfiles, cur, added, jmtime, others, jret>>

\* midnight passes
JMidnight ==
    /\ jclock.day < MaxDay
    /\ jclock' = [day |-> jclock.day + 1, sec |-> 0]
    /\ UNCHANGED <<storeVars, jcfg, jfiles, cur, added, jmtime, others, jret>>

\* the constructor's arguments; max_entries_per_file_ is used with auto_rotate_ only
JournalConfigs ==
    {c \in [max_entries : 0..MaxEntriesCfg, auto_rotate : BOOLEAN] :
        c.auto_rotate \/ c.max_entries = MaxEntriesCfg}

\* a new journal on an empty directory; no store of the first part is in use
InitJournal ==
    /\ InitStore(0)
    /\ cfg = DefaultConfig
    /\ file = NoFile
    /\ jcfg \in JournalConfigs
    /\ jfiles = [n \in Names |-> NoFile]
    /\ cur = NoName
    /\ jclock = [day |-> 1, sec |-> 0]
    /\ added = <<>>
    /\ jmtime = [n \in Names |-> 0]
    /\ others = [o \in OtherNames |-> NoOther]
    /\ jret = NoJRet

NextJournal == AddLog \/ GetLogs \/ JTick \/ JMidnight
SpecJournal == InitJournal /\ [][NextJournal]_vars

(***************************************************************************)
(* Retention: clear_old_logs on a directory that can hold other files.     *)
(***************************************************************************)
\* the days a caller keeps
RetentionDays == 0..1

\* the files fs::remove can fail on during one pass: none, or the first daily file
FailSets == {{}, {FileName(Daily(1))}}

\* fs::remove(entry.path()) inside try / catch (...): whether the file went
Removed(path, write_time, cutoff_time, fails) ==
    find(path, pattern) /\ write_time < cutoff_time /\ path \notin fails

\* LogStore::clear_old_logs.  cutoff_time is time(nullptr) - days * 24 * 3600;
\* last_write_time is cast to whole seconds.
clear_old_logs(days, fails) ==
    LET cutoff_time == Timestamp - days * DayLen
        gone == {n \in Names : jfiles[n].ex /\ Removed(FileName(n), jmtime[n], cutoff_time, fails)}
        ogone == {o \in OtherNames :
                     others[o].ex /\ Removed(OtherFileName(o), others[o].mtime, cutoff_time, fails)}
    IN  /\ jfiles' = [n \in Names |-> IF n \in gone THEN NoFile ELSE jfiles[n]]
        /\ jmtime' = [n \in Names |-> IF n \in gone THEN 0 ELSE jmtime[n]]
        /\ others' = [o \in OtherNames |-> IF o \in ogone THEN NoOther ELSE others[o]]
        /\ jret' = [NoJRet EXCEPT !.kind = "clear_old_logs", !.st = "ok",
                                  !.count = Cardinality(gone) + Cardinality(ogone),
                                  !.days = days, !.fails = fails, !.pre = JSnapshot]
        /\ UNCHANGED <<storeVars, jcfg, cur, jclock, added>>

ClearOldLogs ==
    /\ jret.kind # "clear_old_logs"
    /\ \E days \in RetentionDays, fails \in FailSets : clear_old_logs(days, fails)

\* a file that was in the directory before the journal: an empty array, written at time 0
OldOther == [ex |-> TRUE, bytes |-> Serialize(EmptyArray), mtime |-> 0]

\* a new journal with auto_rotate on a directory that can hold other files
InitRetention ==
    /\ InitStore(0)
    /\ cfg = DefaultConfig
    /\ file = NoFile
    /\ jcfg \in {c \in JournalConfigs : c.auto_rotate}
    /\ jfiles = [n \in Names |-> NoFile]
    /\ cur = NoName
    /\ jclock = [day |-> 1, sec |-> 0]
    /\ added = <<>>
    /\ jmtime = [n \in Names |-> 0]
    /\ others \in [OtherNames -> {NoOther, OldOther}]
    /\ jret = NoJRet

NextRetention == AddLog \/ ClearOldLogs \/ JTick \/ JMidnight
SpecRetention == InitRetention /\ [][NextRetention]_vars

(***************************************************************************)
(* A store with backups, in a directory where other stores make backups    *)
(* of their own.                                                           *)
(***************************************************************************)
InitPrune ==
    /\ InitStore(1)
    /\ InitNoJournal
    /\ \E m \in 0..MaxBackupsCfg : cfg = [DefaultConfig EXCEPT !.max_backups = m]

NextPrune ==
    \/ Construct
    \/ Tick
    \/ \E s \in OtherStems : OtherBackup(s)
    \/ \E t \in Threads : CallWrite(t)
    \/ \E t \in Threads : CallDelete(t)
    \/ \E t \in Threads : lock_guard(t)
    \/ \E t \in Threads : write(t)
    \/ \E t \in Threads : delete_file(t)
    \/ \E t \in Threads : remove_file(t)
    \/ \E t \in Threads : create_backup_(t)
    \/ \E t \in Threads : cleanup_old_backups_(t)
    \/ \E t \in Threads : wi_open(t)
    \/ \E t \in Threads : wi_write(t)
    \/ \E t \in Threads : wi_rename(t)
SpecPrune == InitPrune /\ [][NextPrune]_vars

(***************************************************************************)
(* Construction: a program that constructs a JSONStore on a path where a   *)
(* document may exist, then a LogStore that it writes to and reads.        *)
(***************************************************************************)
\* the constructor's arguments: auto_create, the rest (auto_backup = true) as declared
ConstructConfigs == {[DefaultConfig EXCEPT !.auto_create = c] : c \in BOOLEAN}

InitConstruct ==
    /\ cfg \in ConstructConfigs
    /\ file \in InitFiles
    /\ gz = NoFile
    /\ InitThreads(1)
    /\ jcfg = [max_entries |-> MaxEntriesCfg, auto_rotate |-> TRUE]
    /\ jfiles = [n \in Names |-> NoFile]
    /\ cur = NoName
    /\ jclock = [day |-> 1, sec |-> 0]
    /\ added = <<>>
    /\ jmtime = [n \in Names |-> 0]
    /\ others = [o \in OtherNames |-> NoOther]
    /\ jret = NoJRet

NextConstruct ==
    \/ Construct
    \/ \E t \in Threads : wi_open(t)
    \/ \E t \in Threads : wi_write(t)
    \/ \E t \in Threads : wi_rename(t)
    \/ built /\ AddLog
    \/ built /\ GetLogs
    \/ built /\ JTick
    \/ built /\ JMidnight
SpecConstruct == InitConstruct /\ [][NextConstruct]_vars

(***************************************************************************)
(* The claims.                                                             *)
(***************************************************************************)
\* the document update is given: an absent file reads as the empty object
DocNow == IF file.ex THEN Parse(file.bytes).v ELSE EmptyObject
InitialDocs == {ReadOr(f, EmptyObject) : f \in InitFiles}
Ended(t, kind) == pc[t] = "done" /\ op[t].kind = kind

\* C1: concurrent updates on one store object are serialized.  The committed
\* updates form a chain: each was given the initial document or the output of the
\* commit before it, the document on disk is the output of the last one, a thread
\* between its read and its rename still holds the document on disk, and when all
\* threads have returned every update begun is in the chain.
C1_UpdatesSerialize ==
    /\ \A i \in 1..Len(commits) :
          /\ commits[i].output = Apply(commits[i].fn, commits[i].input).v
          /\ IF i = 1 THEN commits[i].input \in InitialDocs
             ELSE commits[i].input = commits[i - 1].output
    /\ commits # <<>> => DocNow = commits[Len(commits)].output
    /\ \A t \in Threads :
          op[t].kind = "update" /\ pc[t] \in {"wi_open", "wi_write", "wi_rename"}
              => loc[t].data = DocNow
    /\ (built /\ \A t \in Threads : pc[t] = "done") => Len(commits) = nops

\* two threads have committed one update each, and the other order of the two
\* transforms would have given another document
C1_Witness ==
    /\ Len(commits) = 2
    /\ commits[1].by # commits[2].by
    /\ \A t \in Threads : pc[t] = "done"
    /\ DocNow # Apply(commits[1].fn, Apply(commits[2].fn, commits[1].input).v).v

\* C2: a write or update that fails (the validator rejects, the transform throws,
\* the temporary file cannot be opened, serialization to it fails, the rename
\* fails) leaves the document file as it was and gives its caller an error.
C2_FailedWriteLeavesDocument ==
    \A t \in Threads :
        pc[t] = "done" /\ op[t].kind \in {"write", "update"} /\ loc[t].failed
            => file = pre[t].file /\ ret[t].st # "ok"

\* C3: when the process is killed at any step of a write or an update, the
\* document file is the complete document it was before the call (or absent as it
\* was) up to the rename, and the complete new document after it.
C3_CrashLeavesOldOrNew ==
    \A t \in Threads :
        crashed /\ op[t].kind \in {"write", "update"}
            => /\ IF pc[t] = "done" /\ ret[t].st = "ok"
                  THEN file = FileOf(Serialize(loc[t].new_data))
                  ELSE file = pre[t].file
               /\ file.ex => Parse(file.bytes).ok /\ SkipWs(Parse(file.bytes).rest) = <<>>

\* the process is killed while the temporary file holds part of the new document
\* and the document file holds another document
C3_Witness ==
    \E t \in Threads :
        /\ crashed
        /\ op[t].kind \in {"write", "update"}
        /\ pc[t] = "wi_write"
        /\ tmp.ex /\ tmp.bytes # <<>> /\ ~Parse(tmp.bytes).ok
        /\ file.ex /\ Parse(file.bytes).v # loc[t].new_data

\* C4: after every completed write, update or delete the store has at most
\* max_backups backup files.
C4_BackupBound ==
    \A t \in Threads :
        /\ pc[t] = "done"
        /\ ret[t].st = "ok"
        /\ op[t].kind \in {"write", "update", "delete_file"}
        => Cardinality(backups) <= cfg.max_backups

\* C5: a read right after a write(v) that returned gives v.
C5_RoundTrip ==
    \A t \in Threads :
        Ended(t, "read") /\ written.valid => ret[t].st = "ok" /\ ret[t].val = written.v

\* a read has returned the object a write put there, over another document
C5_Witness ==
    \E t \in Threads :
        /\ Ended(t, "read")
        /\ written.valid
        /\ is_object(written.v) /\ written.v # EmptyObject
        /\ ret[t].val = written.v
        /\ ~is_null(op[t].data)

\* C6: a write the validator rejects throws ValidationError and leaves the
\* document, the backups and the temporary file as they were; a write the
\* validator accepts commits its data.
C6_ValidationGate ==
    \A t \in Threads :
        Ended(t, "write") /\ op[t].flag /\ cfg.validator
            => IF ~validate_func(op[t].data)
               THEN /\ ret[t].st = "ValidationError"
                    /\ file = pre[t].file
                    /\ backups = pre[t].backups
                    /\ tmp = pre[t].tmp
               ELSE /\ ret[t].st = "ok"
                    /\ file = FileOf(Serialize(op[t].data))

\* C7: read() with no default on an absent file throws FileNotFoundError.
C7_ReadAbsentIsNotFound ==
    \A t \in Threads :
        Ended(t, "read") /\ ~op[t].flag /\ ~pre[t].file.ex
            => IsA(ret[t].st, "FileNotFoundError")

\* C8: read(default) returns default on an absent file, and does not create the
\* file; on a file that exists it returns the parsed document.
C8_DefaultSemantics ==
    \A t \in Threads :
        Ended(t, "read") /\ op[t].flag
            => /\ ret[t].st = "ok"
               /\ file = pre[t].file
               /\ ret[t].val = IF pre[t].file.ex THEN Parse(pre[t].file.bytes).v
                               ELSE op[t].data

\* C9: on an absent file, read with a default that was given, null included,
\* returns it, and only read with no default fails.
C9_NullDefaultIsADefault ==
    \A t \in Threads :
        Ended(t, "read") /\ ~pre[t].file.ex
            => IF op[t].flag THEN ret[t].st = "ok" /\ is_null(ret[t].val) = is_null(op[t].data)
               ELSE ret[t].st # "ok"

\* the entries a log file holds
EntriesOf(f) == LET data == ReadOr(f, EmptyArray) IN IF is_array(data) THEN data.items ELSE <<>>
LogFiles == {n \in Names : jfiles[n].ex}

\* C10: with auto_rotate, after max_entries_per_file + 1 add_log calls on one
\* day there are two log files: the daily file with the first max_entries_per_file
\* entries and one stamped file with the last entry.
C10_RotationTrigger ==
    (/\ jcfg.auto_rotate
     /\ Len(added) = jcfg.max_entries + 1
     /\ \A i \in 1..Len(added) : added[i].day = added[1].day)
    => LET d == added[1].day
           m == jcfg.max_entries
       IN  /\ Cardinality(LogFiles) = 2
           /\ Daily(d) \in LogFiles
           /\ EntriesOf(jfiles[Daily(d)]) = [i \in 1..m |-> added[i].entry]
           /\ \E sec \in 0..MaxSec :
                 /\ Stamped(d, sec) \in LogFiles
                 /\ EntriesOf(jfiles[Stamped(d, sec)]) = <<added[m + 1].entry>>

\* three calls on one day with max_entries_per_file = 2: files of 2 and 1 entries
C10_Witness ==
    /\ jcfg.auto_rotate
    /\ jcfg.max_entries = 2
    /\ Len(added) = 3
    /\ \A i \in 1..Len(added) : added[i].day = added[1].day
    /\ Len(EntriesOf(jfiles[Daily(added[1].day)])) = 2
    /\ cur.stamp >= 0 /\ Len(EntriesOf(jfiles[cur])) = 1

\* C11: with auto_rotate and a maximum of at least one entry, no log file, daily
\* or stamped, ever holds more than max_entries_per_file entries.
C11_FileSizeBound ==
    jcfg.auto_rotate /\ jcfg.max_entries >= 1
        => \A n \in LogFiles : Len(EntriesOf(jfiles[n])) <= jcfg.max_entries

\* C12: a file rotate_ left because it had reached max_entries_per_file is not
\* the file any later add_log, or the add_log that rotated, appends to.
C12_RotatedAwayIsClosed ==
    \A i \in 1..Len(added) : \A j \in i..Len(added) :
        added[i].from # NoName => added[j].name # added[i].from

\* the journal left a full daily file, and a later call on the same day came
\* back to that file, found it full and left it again
C12_Witness ==
    /\ jcfg.max_entries >= 1
    /\ \E i \in 1..Len(added) : \E j \in (i + 1)..Len(added) :
          /\ added[i].from # NoName
          /\ added[j].from = added[i].from
          /\ Len(EntriesOf(jfiles[added[i].from])) = jcfg.max_entries

Expired(found, n) ==
    /\ found.files[n].ex
    /\ found.mtime[n] < found.at - jret.days * DayLen
    /\ FileName(n) \notin jret.fails

\* C14: clear_old_logs(days) deletes exactly the journal's log files older than
\* now - days that fs::remove does not fail on, keeps every other file of the
\* directory, and returns the number of files it deleted.
C14_ClearsExactlyOld ==
    jret.kind = "clear_old_logs"
        => /\ \A n \in Names : jfiles[n].ex = (jret.pre.files[n].ex /\ ~Expired(jret.pre, n))
           /\ \A o \in OtherNames : others[o].ex = jret.pre.others[o].ex
           /\ jret.count = Cardinality({n \in Names : Expired(jret.pre, n)})

\* C15: clear_old_logs leaves every file whose name is not prefix_YYYYMMDD.json
\* or prefix_YYYYMMDD_HHMMSS.json as it was, whatever its age.
C15_OtherFilesUntouched ==
    jret.kind = "clear_old_logs" => others = jret.pre.others

\* the items of a document read as a sequence: none when it is not an array
ItemsOf(data) == IF is_array(data) THEN data.items ELSE <<>>
LastCommit == commits[Len(commits)]

\* C16: set(k, v) right after set(k, v) leaves the document the first one left;
\* delete_key(k) on a document that does not hold k leaves it as it is, and
\* returns true.
C16_ViewIdempotence ==
    /\ \A i \in 1..Len(commits) :
          /\ (i > 1 /\ commits[i].fn.f = "set" /\ commits[i - 1].fn = commits[i].fn)
                => commits[i].output = commits[i - 1].output
          /\ (commits[i].fn.f = "delete_key" /\ ~contains(commits[i].input, commits[i].fn.key))
                => commits[i].output = commits[i].input
    /\ commits # <<>> => DocNow = LastCommit.output
    /\ \A t \in Threads :
          Ended(t, "update") /\ op[t].fn.f = "delete_key"
              => ViewReturn(t).st = "ok" /\ ViewReturn(t).b

\* set(k, v) changed the document, the same set(k, v) after it left it alone,
\* and a delete_key of a key the document does not hold has returned true
C16_Witness ==
    /\ Len(commits) = 3
    /\ commits[1].fn.f = "set" /\ commits[2].fn = commits[1].fn
    /\ commits[1].input # commits[1].output
    /\ commits[3].fn.f = "delete_key"
    /\ ~contains(commits[3].input, commits[3].fn.key)
    /\ DocNow = commits[1].output
    /\ \E t \in Threads : Ended(t, "update") /\ ViewReturn(t).b

\* the items an append or an extend is asked to add
NewItems(fn) == IF fn.f = "append" THEN <<fn.val>> ELSE ItemsOf(fn.val)

\* C17: append and extend leave an array that holds the items of the array they
\* found (none when the document was not an array) at their indexes, then the
\* new items in the order given; after append(a); append(b) on an empty or
\* non-array document get_at(0) = a, get_at(1) = b and length() = 2.
C17_AppendKeepsOrder ==
    /\ \A i \in 1..Len(commits) :
          commits[i].fn.f \in {"append", "extend"}
              => LET old == ItemsOf(commits[i].input)
                     new == NewItems(commits[i].fn)
                     out == commits[i].output
                 IN  /\ is_array(out)
                     /\ Len(out.items) = Len(old) + Len(new)
                     /\ \A k \in 1..Len(old) : out.items[k] = old[k]
                     /\ \A k \in 1..Len(new) : out.items[Len(old) + k] = new[k]
    /\ commits # <<>> => DocNow = LastCommit.output
    /\ \A t \in Threads :
          (/\ Ended(t, "read")
           /\ Len(commits) >= 2
           /\ LastCommit.fn.f = "append"
           /\ commits[Len(commits) - 1].fn.f = "append"
           /\ ItemsOf(commits[Len(commits) - 1].input) = <<>>)
          => /\ ViewReturn(t).st = "ok"
             /\ op[t].fn.f = "get_at" /\ op[t].fn.idx = 0
                   => ViewReturn(t).val = commits[Len(commits) - 1].fn.val
             /\ op[t].fn.f = "get_at" /\ op[t].fn.idx = 1
                   => ViewReturn(t).val = LastCommit.fn.val
             /\ op[t].fn.f = "length" => ViewReturn(t).val = JInt(2)

\* append(3); append(4) on the object the constructor wrote, then get_at(1) = 4
C17_Witness ==
    \E t \in Threads :
        /\ Ended(t, "read") /\ op[t].fn.f = "get_at" /\ op[t].fn.idx = 1
        /\ Len(commits) = 2
        /\ commits[1].fn.f = "append" /\ commits[2].fn.f = "append"
        /\ commits[1].input = EmptyObject
        /\ commits[1].fn.val # commits[2].fn.val
        /\ ViewReturn(t).val = JInt(4)

\* the positions of the items of a sequence that satisfy p
Kept(p, items) == {k \in 1..Len(items) : FilterFunc(p, items[k])}

\* C18: filter(p) leaves exactly the items that satisfy p, each as often as it
\* was there and in the order they were in ([1,2,3,4] and x > 2 give [3,4]); a
\* document that is not an array is left as it is.
C18_FilterKeeps ==
    /\ \A i \in 1..Len(commits) :
          commits[i].fn.f = "filter"
              => LET in == commits[i].input
                     out == commits[i].output
                     kept == Kept(commits[i].fn.key, ItemsOf(in))
                 IN  IF ~is_array(in) THEN out = in
                     ELSE /\ is_array(out)
                          /\ Len(out.items) = Cardinality(kept)
                          /\ \A k \in kept :
                                out.items[Cardinality({m \in kept : m <= k})] = in.items[k]
    /\ commits # <<>> => DocNow = LastCommit.output

\* filter(x > 2) has turned [1,2,3,4,3] into [3,4,3]
C18_Witness ==
    /\ commits # <<>>
    /\ LastCommit.fn = Fn("filter", "gt2", JNull, 0, FALSE)
    /\ LastCommit.input = JArr(<<JInt(1), JInt(2), JInt(3), JInt(4), JInt(3)>>)
    /\ DocNow = JArr(<<JInt(3), JInt(4), JInt(3)>>)

\* a file that holds one JSON document and nothing after it
Complete(f) == Parse(f.bytes).ok /\ SkipWs(Parse(f.bytes).rest) = <<>>

\* C19: in every state the document file, when it exists, holds a complete
\* document: never an empty, cut or half written one.
C19_FileAlwaysComplete == file.ex => Complete(file)

\* C20: a compress or a decompress that fails (a missing file, a file that
\* cannot be opened, a gzip stream that cannot be decoded) leaves the document
\* file as it was before the call.
C20_FailedCodecLeavesDocument ==
    \A t \in Threads :
        /\ pc[t] = "done"
        /\ op[t].kind \in {"compress", "decompress"}
        /\ ret[t].st # "ok" \/ loc[t].failed
        => file = pre[t].file

\* a backup that holds the document thread t's call found
BackupOfPre(t) == \E b \in backups : b.bytes = pre[t].file.bytes

\* C21: with auto_backup (and room for one backup), an update of a document that
\* exists leaves a backup that holds the document it replaced.
C21_UpdateBacksUp ==
    \A t \in Threads :
        (/\ Ended(t, "update") /\ ret[t].st = "ok"
         /\ cfg.auto_backup /\ cfg.max_backups >= 1
         /\ pre[t].file.ex)
        => BackupOfPre(t)

\* C22: validate_func_ is called by write with validate = true only; update (the
\* view mutators go through it), write(data, false) and the constructor's
\* auto-create never call it, never throw ValidationError, and when they return
\* the document is their result, whether validate_func_ accepts it or not.
C22_ValidationOnlyOnWrite ==
    \A t \in Threads :
        /\ loc[t].validated => op[t].kind = "write" /\ op[t].flag
        /\ ret[t].st = "ValidationError" => loc[t].validated
        /\ (/\ pc[t] = "done" /\ ret[t].st = "ok"
            /\ op[t].kind \in {"update", "write", "ctor"}
            /\ ~loc[t].validated)
           => file = FileOf(Serialize(loc[t].new_data))

\* a store with a validator has committed write(null, false), which the validator
\* would have rejected
C22_Witness ==
    \E t \in Threads :
        /\ cfg.validator
        /\ Ended(t, "write") /\ ~op[t].flag /\ ret[t].st = "ok"
        /\ ~validate_func(op[t].data)
        /\ file = FileOf(Serialize(op[t].data))

\* C23: delete_file on an absent file returns false and leaves the document,
\* the backups and the temporary file as they were; on a file that exists it
\* removes the file and returns true, and with create_backup = true (and room
\* for one backup) a backup that holds the deleted document is left.
C23_DeleteSemantics ==
    \A t \in Threads :
        Ended(t, "delete_file")
            => IF ~pre[t].file.ex
               THEN /\ ret[t].st = "ok" /\ ~ret[t].b
                    /\ file = pre[t].file
                    /\ backups = pre[t].backups
                    /\ tmp = pre[t].tmp
               ELSE /\ ret[t].st = "ok" /\ ret[t].b
                    /\ ~file.ex
                    /\ op[t].flag /\ cfg.max_backups >= 1 => BackupOfPre(t)

\* the positions of read, write, update and delete_file, and of the backup
\* creation and pruning and the write_internal_ they call
Locked == {"read", "write", "update", "delete_file", "remove", "create_backup",
           "cleanup_old_backups", "wi_open", "wi_write", "wi_rename"}
Inside(t) == pc[t] \in Locked /\ op[t].kind \in {"read", "write", "update", "delete_file"}

\* C24: a thread inside read, write, update or delete_file (backup creation and
\* pruning included) holds mutex_, so at most one thread is inside; a thread
\* whose call has ended, normally or with an error, does not hold it; exists,
\* get_size, compress and decompress never hold it.
C24_LockDiscipline ==
    /\ \A t \in Threads : Inside(t) => mutex = t
    /\ Cardinality({t \in Threads : Inside(t)}) <= 1
    /\ \A t \in Threads : pc[t] = "done" => mutex # t
    /\ \A t \in Threads : op[t].kind \in Unlocked => mutex # t

\* thread 2 holds mutex_ inside write_internal_ while thread 1 is in the copy
\* loop of decompress
C24_Witness ==
    /\ Inside(2) /\ pc[2] = "wi_write" /\ mutex = 2
    /\ pc[1] = "d_copy"
    /\ nops = 2

\* the most recently written of a set of backups
Newest(bs) == CHOOSE b \in bs : \A c \in bs : b.mtime >= c.mtime

\* C25: with auto_backup and max_backups >= 1, a write to a document that exists
\* has made its backup before it replaces the document (while write_internal_
\* runs the document is still the old one and the newest backup holds it), and
\* right after the write has returned the newest backup holds exactly the
\* document that was on disk before the write.
C25_BackupBeforeReplace ==
    \A t \in Threads :
        (/\ op[t].kind = "write"
         /\ cfg.auto_backup /\ cfg.max_backups >= 1
         /\ pre[t].file.ex)
        => /\ pc[t] \in {"wi_open", "wi_write", "wi_rename"}
              => /\ file = pre[t].file
                 /\ backups # {} /\ Newest(backups).bytes = pre[t].file.bytes
           /\ pc[t] = "done" /\ ret[t].st = "ok"
              => /\ file = FileOf(Serialize(op[t].data))
                 /\ backups # {} /\ Newest(backups).bytes = pre[t].file.bytes

\* a second write has returned: the backup of the first was pruned, and the one
\* backup left holds the document the second write replaced
C25_Witness ==
    \E t \in Threads :
        /\ Ended(t, "write") /\ ret[t].st = "ok"
        /\ cfg.auto_backup /\ cfg.max_backups = 1
        /\ pre[t].file.ex
        /\ pre[t].backups # {} /\ pre[t].backups # backups
        /\ \A b \in pre[t].backups : b.bytes # pre[t].file.bytes
        /\ Cardinality(backups) = 1
        /\ Newest(backups).bytes = pre[t].file.bytes
        /\ file.bytes # pre[t].file.bytes

\* the document a call found: an absent file counts as the empty object
DocOfPre(t) == IF pre[t].file.ex THEN Parse(pre[t].file.bytes).v ELSE EmptyObject

\* C26: update gives update_func the document on disk, or the empty object when
\* the file is absent, commits what update_func returns and returns that same
\* value; when update_func throws the document stays as it was.  A read after
\* the update, with no other change of the store between, returns the value the
\* update returned.
C26_UpdateReturnsCommitted ==
    /\ \A t \in Threads :
          Ended(t, "update")
              => LET applied == Apply(op[t].fn, DocOfPre(t))
                 IN  IF applied.ok
                     THEN /\ ret[t].st = "ok"
                          /\ loc[t].data = DocOfPre(t)
                          /\ ret[t].val = applied.v
                          /\ file = FileOf(Serialize(ret[t].val))
                     ELSE ret[t].st # "ok" /\ file = pre[t].file
    /\ \A t \in Threads :
          Ended(t, "read") /\ commits # <<>>
              => ret[t].st = "ok" /\ ret[t].val = LastCommit.output

\* on a store with no file and no auto-create, update was given the empty object
\* and a read after it has returned the object update returned
C26_Witness ==
    \E t \in Threads :
        /\ Ended(t, "read")
        /\ ~cfg.auto_create
        /\ Len(commits) = 1
        /\ commits[1].input = EmptyObject
        /\ commits[1].output # EmptyObject
        /\ ret[t].val = commits[1].output

\* C27: a step that takes the document file from absent to present is the
\* rename that ends a write, an update or the constructor's auto-create; no step
\* of read, exists, get_size, delete_file, compress, decompress or of the backup
\* creation and pruning creates the file.
C27_CreatedOnlyByWrite ==
    [][(~file.ex /\ file'.ex)
          => \E t \in Threads :
                /\ pc[t] = "wi_rename" /\ pc'[t] = "done"
                /\ op[t].kind \in {"write", "update", "ctor"}]_vars

\* a document read as a mapping: the empty one when it is not an object
MappingOf(data) == IF is_object(data) THEN data ELSE EmptyObject

\* C28: merge(other, overwrite) leaves an object whose keys are those of the
\* mapping and of other; with overwrite every key of other has other's value and
\* the rest keep theirs, without it every key of the mapping keeps its value and
\* the rest have other's; a document that is not an object counts as empty.
C28_MergeSemantics ==
    /\ \A i \in 1..Len(commits) :
          commits[i].fn.f = "merge"
              => LET d == MappingOf(commits[i].input)
                     other == commits[i].fn.val
                     out == commits[i].output
                 IN  /\ is_object(out)
                     /\ Keys(out) = Keys(d) \cup Keys(other)
                     /\ \A k \in Keys(out) :
                           ValueAt(out, k) =
                               IF commits[i].fn.flag
                               THEN IF k \in Keys(other) THEN ValueAt(other, k) ELSE ValueAt(d, k)
                               ELSE IF k \in Keys(d) THEN ValueAt(d, k) ELSE ValueAt(other, k)
    /\ commits # <<>> => DocNow = LastCommit.output

\* on {"a": 1}, merge({"a": 5}, true) has replaced a, then
\* merge({"a": 7, "b": "y"}, false) has kept a = 5 and added b
C28_Witness ==
    /\ Len(commits) = 2
    /\ commits[1].fn.flag /\ ~commits[2].fn.flag
    /\ commits[1].input = JObj([k \in {"a"} |-> JInt(1)])
    /\ commits[1].output = JObj([k \in {"a"} |-> JInt(5)])
    /\ DocNow = JObj([k \in {"a", "b"} |-> IF k = "a" THEN JInt(5) ELSE JStr("y")])

\* the number of entries the file of the i-th add_log held once that call had returned
HeldAfter(i) == Cardinality({j \in 1..i : added[j].name = added[i].name})

\* C29: current_store_ is bound to the file the last add_log appended to, and an
\* add_log on the same day as the one before it, made while the file that one
\* left bound holds fewer than max_entries_per_file entries (or with no
\* auto_rotate), appends to that same file, a stamped file included.
C29_HandleStable ==
    /\ added # <<>> => cur = added[Len(added)].name
    /\ \A i \in 1..(Len(added) - 1) :
          (/\ added[i + 1].day = added[i].day
           /\ ~jcfg.auto_rotate \/ HeldAfter(i) < jcfg.max_entries)
          => added[i + 1].name = added[i].name

\* C30: on a store with no compressed file to begin with, a decompress that
\* returns (so a compress of the document came before it) leaves the document
\* file equal, byte for byte, to the document it found, whatever its length.
C30_RoundTrip ==
    \A t \in Threads :
        Ended(t, "decompress") /\ ret[t].st = "ok" => file = pre[t].file

\* the calls of add_log that appended to the log file n
AddedTo(n) == {i \in 1..Len(added) : added[i].name = n}

\* C31: the constructor leaves a file that exists as it is and makes no backup;
\* it writes the empty object when the file is absent and auto_create is set,
\* and leaves an absent file absent otherwise.  The same holds for the stores
\* the journal constructs when it rebinds, rotates and reads: a log file holds
\* exactly the entries appended to it, in order, however often a store was
\* constructed on it since, and a log file nothing was appended to holds the
\* empty object its constructor wrote.
C31_ConstructorKeepsFile ==
    /\ pc[1] # "new" /\ ~built => file = pre[1].file
    /\ built /\ nops = 0
          => /\ backups = {}
             /\ IF pre[1].file.ex THEN file = pre[1].file
                ELSE IF cfg.auto_create THEN file = FileOf(Serialize(EmptyObject))
                ELSE ~file.ex
    /\ \A n \in Names :
          IF AddedTo(n) = {}
          THEN jfiles[n].ex => jfiles[n] = FileOf(Serialize(EmptyObject))
          ELSE /\ jfiles[n].ex
               /\ Len(EntriesOf(jfiles[n])) = Cardinality(AddedTo(n))
               /\ \A i \in AddedTo(n) :
                     EntriesOf(jfiles[n])[Cardinality({j \in AddedTo(n) : j <= i})]
                         = added[i].entry

\* a store was constructed on the document [1] and left it; the journal came
\* back twice to a full daily file, constructed a store on it each time and
\* left its entries, and get_logs has constructed a store on every log file
C31_Witness ==
    /\ built /\ pre[1].file.ex /\ file = pre[1].file
    /\ jcfg.max_entries >= 1
    /\ \E i \in 1..Len(added) : \E j \in (i + 1)..Len(added) :
          /\ added[i].from # NoName
          /\ added[j].from = added[i].from
          /\ Len(EntriesOf(jfiles[added[i].from])) = jcfg.max_entries
    /\ jret.kind = "get_logs" /\ Len(jret.logs) = Len(added)

\* the backups of the set bs that the store of stem s made
BackupsOf(bs, s) == {b \in bs : b.stem = s}

\* C32: a pruning by the store deletes only the store's own backups and keeps the
\* max_backups most recently modified of them; it leaves the document and the
\* backups of the other stores of the directory as they are.
C32_PrunesOwnBackupsOnly ==
    [][\A t \in Threads :
           pc[t] = "cleanup_old_backups" /\ pc'[t] # "cleanup_old_backups" /\ cfg.has_dir
              => /\ file' = file
                 /\ backups' \ BackupsOf(backups', stem) = backups \ BackupsOf(backups, stem)
                 /\ BackupsOf(backups', stem)
                        \in Pruned(BackupsOf(backups, stem), cfg.max_backups)]_vars
====
